---------------------------- MODULE Spec2Model ----------------------------
(***************************************************************************)
(* gotohugo: conversion of a commented Go file into Hugo Markdown.         *)
(*                                                                         *)
(* A line of text is a sequence of characters; a character is a one-       *)
(* element TLA+ string.  A few fixed multi-character literals of the       *)
(* program are kept as one symbol each:                                    *)
(*   "MORE"  the summary divider  <!--more-->                              *)
(*   "BT"    the backtick (\x60), written <BT> inside a string literal     *)
(*   "HYPE"  the four letters HYPE of the animation tag                    *)
(*   "SRC"   src="  and  "HR"  .hyperesources/   (Hype HTML export)        *)
(*   "START" <!-- copy these lines to your document: -->                   *)
(*   "END"   <!-- end copy -->                                             *)
(* A directory or file name is one symbol ("media", "out", "b", ...).      *)
(*                                                                         *)
(* The output string `out` is the sequence of the fragments that the       *)
(* program appends to it, one fragment per appended string expression.     *)
(***************************************************************************)
EXTENDS Integers, Sequences, FiniteSets, TLC

VARIABLES
    pc,        \* position of convertFile: "start", "loop", "write", "done", "fatal"
    flags,     \* the globals outDir, postDir, mediaDir, publicMediaDir after main
    base,      \* convert's parameter base (the base name of the source file)
    in,        \* the lines of convert's parameter in that the loop has consumed
    status,    \* convert's local variable status
    out,       \* convert's result out, as the sequence of appended fragments
    err,       \* convertFile's result err
    written,   \* whether ioutil.WriteFile has written the Markdown file
    stripped,  \* StripSpec: a line, and the texts got from it by stripping the delimiter
    rest,      \* DocSpec: the lines of convert's parameter in that the loop has yet to take
    inText,    \* TextSpec: convert's parameter in, the text of the document
    args,      \* FlagSpec: the command line and the environment of main
    hypeHTML,  \* SnippetSpec: the lines of the file that getHTMLSnippet reads
    htmlSnippet, \* SnippetSpec: what getHTMLSnippet returns
    calls,     \* CallSpec: the calls of convert, each with its parameters and locals
    hypeFile,  \* CallSpec: the Hype HTML export in the media directory of each base name
    entries,   \* WatchSpec: the entries of the watched directory at start-up
    watchedPath, \* WatchSpec: watchAndConvert's map of paths to timers
    events,    \* WatchSpec: the events received from watcher.Events
    started,   \* WatchSpec: the paths whose timer has fired and started convertFile
    progress,  \* WatchSpec: for each of started, how far its convertFile has come
    ticks      \* WatchSpec: the watchdog ticks received

snippetVars == <<hypeHTML, htmlSnippet>>

callVars == <<calls, hypeFile>>

watchVars == <<entries, watchedPath, events, started, progress, ticks>>

vars ==
    <<pc, flags, base, in, status, out, err, written, stripped, rest, inText, args,
      snippetVars, callVars, watchVars>>

\* The variables of a part of the program that is not running.
NoDocument == rest = <<>> /\ inText = <<>>

NoArgs == args = <<>>

NoSnippet == hypeHTML = <<>> /\ htmlSnippet = <<>>

NoCalls == calls = <<>> /\ hypeFile = <<>>

NoWatch ==
    /\ entries = {}
    /\ watchedPath = <<>>
    /\ events = <<>>
    /\ started = <<>>
    /\ progress = <<>>
    /\ ticks = 0

-----------------------------------------------------------------------------
(* Sequences                                                               *)

Drop(s, n) == SubSeq(s, n + 1, Len(s))

Take(s, n) == SubSeq(s, 1, n)

Last(s) == s[Len(s)]

HasPrefixAt(s, i, pat) ==
    /\ i >= 1
    /\ i + Len(pat) - 1 <= Len(s)
    /\ SubSeq(s, i, i + Len(pat) - 1) = pat

HasSuffix(s, pat) == HasPrefixAt(s, Len(s) - Len(pat) + 1, pat)

Contains(s, c) == \E i \in 1..Len(s) : s[i] = c

\* The least element of a set of numbers, or 0 when it is empty.
MinOrZero(S) == IF S = {} THEN 0 ELSE CHOOSE j \in S : \A k \in S : j <= k

\* The greatest element of a set of numbers, or 0 when it is empty.
MaxOrZero(S) == IF S = {} THEN 0 ELSE CHOOSE j \in S : \A k \in S : j >= k

\* The least index j >= i with s[j] = c, or 0.
IndexFrom(s, i, c) == MinOrZero({j \in i..Len(s) : s[j] = c})

\* The greatest index j >= i with s[j] = c, or 0.
LastIndexFrom(s, i, c) == MaxOrZero({j \in i..Len(s) : s[j] = c})

\* The number of leading elements of s, from index i on, that are in set cs.
RunFrom(s, i, cs) ==
    IF i > Len(s) THEN 0
    ELSE CHOOSE n \in 0..(Len(s) - i + 1) :
            /\ \A k \in i..(i + n - 1) : s[k] \in cs
            /\ (i + n > Len(s) \/ s[i + n] \notin cs)

\* The number of trailing elements of s that are in set cs.
RunBack(s, cs) ==
    CHOOSE n \in 0..Len(s) :
        /\ \A k \in (Len(s) - n + 1)..Len(s) : s[k] \in cs
        /\ (n = Len(s) \/ s[Len(s) - n] \notin cs)

RECURSIVE Flatten(_)
Flatten(ss) == IF ss = <<>> THEN <<>> ELSE Head(ss) \o Flatten(Tail(ss))

RECURSIVE SeqFilter(_, _)
SeqFilter(s, keep) ==
    IF s = <<>> THEN <<>>
    ELSE (IF Head(s) \in keep THEN <<Head(s)>> ELSE <<>>) \o SeqFilter(Tail(s), keep)

-----------------------------------------------------------------------------
(* The patterns (regexp syntax of Go, leftmost-first matching)             *)

\* \s of Go's regexp: [\t\n\f\r ]
WhiteSpace == {" ", "\t", "\n", "\f", "\r"}

\* ^\s*<delim>\s?  with n the length of the leading white space: the index of
\* the last character of the match, or 0.
delimiterEnd(line, n, delim) ==
    IF HasPrefixAt(line, n + 1, delim)
    THEN (IF n + 3 <= Len(line) /\ line[n + 3] \in WhiteSpace THEN n + 3 ELSE n + 2)
    ELSE 0

\* The pattern ^\s*// , which leaves the white space after the delimiter.
commentReDelimiterOnly(line) ==
    IF HasPrefixAt(line, RunFrom(line, 1, WhiteSpace) + 1, <<"/", "/">>)
    THEN RunFrom(line, 1, WhiteSpace) + 2
    ELSE 0

\* commentPtrn  ^\s*//\s?   : the index of the last character of the match, or 0.
commentRe(line) == delimiterEnd(line, RunFrom(line, 1, WhiteSpace), <<"/", "/">>)

\* commentStartPtrn  ^\s*/\*\s?  : the index of the last character of the match, or 0.
commentStart(line) == delimiterEnd(line, RunFrom(line, 1, WhiteSpace), <<"/", "*">>)

\* commentEndPtrn  \s*\*/\s*$  : whether the pattern matches.
commentEnd(line) ==
    HasSuffix(Take(line, Len(line) - RunBack(line, WhiteSpace)), <<"*", "/">>)

\* frontmatterPtrn  ^\s*(\+\+\+)|(---)\s*$  : the alternation binds weakest, so
\* this is  ^\s*\+\+\+  or  ---\s*$ .
frontmatterDelim(line) ==
    \/ HasPrefixAt(line, RunFrom(line, 1, WhiteSpace) + 1, <<"+", "+", "+">>)
    \/ HasSuffix(Take(line, Len(line) - RunBack(line, WhiteSpace)), <<"-", "-", "-">>)

\* preformatPtrn  \x60|^ {4,}|^\t\s*
preformat(line) ==
    \/ Contains(line, "BT")
    \/ RunFrom(line, 1, {" "}) >= 4
    \/ (Len(line) >= 1 /\ line[1] = "\t")

\* The pattern with ([^\)]*) for the path, which also matches empty parentheses.
hypeTagMatchEmptyPath(line, p, q, r, lead) ==
    IF /\ HasPrefixAt(line, p, <<"HYPE", "[">>)
       /\ q >= p + 3
       /\ HasPrefixAt(line, q + 1, <<"(">>)
       /\ r >= q + 2
    THEN <<r, IF q + 2 + lead >= r THEN <<>> ELSE SubSeq(line, q + 2 + lead, r - 1)>>
    ELSE <<>>

\* hypePtrn  HYPE\[[^\]]+\]\( *([^\)]+) *\)  tried at position p, with q the
\* index of the first "]" after "HYPE[", r that of the first ")" after "](" and
\* lead the number of spaces after "](": the match as <<last index of the match,
\* captured path>>, or <<>>.  The greedy group takes all the text between the
\* parentheses after the leading spaces, and, when it is spaces only, its last
\* space.
hypeTagMatch(line, p, q, r, lead) ==
    IF /\ HasPrefixAt(line, p, <<"HYPE", "[">>)
       /\ q >= p + 3
       /\ HasPrefixAt(line, q + 1, <<"(">>)
       /\ r >= q + 3
    THEN <<r, IF q + 2 + lead >= r THEN <<" ">> ELSE SubSeq(line, q + 2 + lead, r - 1)>>
    ELSE <<>>

hypeTagClose(line, p, q) ==
    hypeTagMatch(line, p, q, IndexFrom(line, q + 2, ")"), RunFrom(line, q + 2, {" "}))

hypeTagAt(line, p) == hypeTagClose(line, p, IndexFrom(line, p + 2, "]"))

hypeTagSubmatch(line, p, m) == <<SubSeq(line, p, m[1]), m[2]>>

hypeTagFirst(line, p) ==
    IF p = 0 THEN <<>> ELSE hypeTagSubmatch(line, p, hypeTagAt(line, p))

\* hypeTag.FindStringSubmatch: <<>> (no match) or <<whole match, captured path>>.
hypeTag(line) ==
    hypeTagFirst(line, MinOrZero({p \in 1..Len(line) : hypeTagAt(line, p) # <<>>}))

\* imagePtrn  (!\[[^\]]+\]\( *)([^"\)]*?)(.*?\))  tried at position p, with q
\* the index of the first "]" after "![", s the index after "](" and its spaces,
\* r that of the first ")" from s on: the match as <<last index of group 1, last
\* index of the match>>, or <<>>.  Group 2 is lazy and group 3 accepts any text,
\* so group 2 is empty and group 3 runs from the end of group 1 to the first ")".
imageTagMatch(line, p, q, s, r) ==
    IF /\ HasPrefixAt(line, p, <<"!", "[">>)
       /\ q >= p + 3
       /\ HasPrefixAt(line, q + 1, <<"(">>)
       /\ r >= s
    THEN <<s - 1, r>>
    ELSE <<>>

imageTagClose(line, p, q, s) == imageTagMatch(line, p, q, s, IndexFrom(line, s, ")"))

imageTagOpen(line, p, q) ==
    imageTagClose(line, p, q, q + 2 + RunFrom(line, q + 2, {" "}))

imageTagAt(line, p) == imageTagOpen(line, p, IndexFrom(line, p + 2, "]"))

-----------------------------------------------------------------------------
(* Paths.  A path is the sequence of its names; the empty string is <<>>.  *)

\* filepath.Join: empty elements are ignored, the others joined by separators.
Join(elems) == Flatten(elems)

\* The text of a path: its names with "/" between them.
RECURSIVE PathString(_)
PathString(p) ==
    IF Len(p) <= 1 THEN p ELSE <<Head(p), "/">> \o PathString(Tail(p))

\* filepath.Join(dir..., file) as text, file being text already.
JoinText(dir, file) ==
    IF dir = <<>> THEN file
    ELSE IF file = <<>> THEN PathString(dir)
    ELSE PathString(dir) \o <<"/">> \o file

\* Regexp.ReplaceAllString's template expansion: $1, $2, $3 stand for the groups.
RECURSIVE Expand(_, _)
Expand(template, groups) ==
    IF template = <<>> THEN <<>>
    ELSE (CASE Head(template) = "$1" -> groups[1]
            [] Head(template) = "$2" -> groups[2]
            [] Head(template) = "$3" -> groups[3]
            [] OTHER -> <<Head(template)>>) \o Expand(Tail(template), groups)

\* main, after hugoDir has got its value from the flag or from $HUGODIR.
mainDirs(hugoDir, outDirFlag) ==
    IF hugoDir # <<>>
    THEN [outDir |-> hugoDir, postDir |-> <<"content", "post">>,
          mediaDir |-> <<"static", "media">>, publicMediaDir |-> <<"media">>]
    ELSE [outDir |-> outDirFlag, postDir |-> <<>>,
          mediaDir |-> <<>>, publicMediaDir |-> <<>>]

\* main, were $HUGODIR copied into *hugoDir whenever it is set.
mainEnvFirst(hugoDirFlag, hugoDirEnv, outDirFlag) ==
    mainDirs(IF hugoDirEnv # <<>> THEN hugoDirEnv ELSE hugoDirFlag, outDirFlag)

\* main: the globals after flag parsing.
main(hugoDirFlag, hugoDirEnv, outDirFlag) ==
    mainDirs(IF hugoDirFlag = <<>> /\ hugoDirEnv # <<>> THEN hugoDirEnv ELSE hugoDirFlag,
             outDirFlag)

-----------------------------------------------------------------------------
(* Helper functions                                                        *)

isLineComment(line) == commentRe(line) # 0

isCommentStart(line) == commentStart(line) # 0

isCommentEnd(line) == commentEnd(line)

isFrontmatterDelim(line) == frontmatterDelim(line)

isSummaryDivider(line) == Contains(line, "MORE")

isPreformatted(line) == preformat(line)

\* commentRe.ReplaceAllString(line, ""): the pattern is anchored, so it matches once.
stripComment(line) == Drop(line, commentRe(line))

\* commentStart.ReplaceAllString(line, "")
stripCommentStart(line) == Drop(line, commentStart(line))

\* strings.Replace(s, "\r", "", 1): the first carriage return alone goes.
removeCRFirst(s) ==
    IF Contains(s, "\r")
    THEN Take(s, IndexFrom(s, 1, "\r") - 1) \o Drop(s, IndexFrom(s, 1, "\r"))
    ELSE s

\* strings.Replace(s, "\r", "", -1)
removeCR(s) == SeqFilter(s, {c \in {s[i] : i \in 1..Len(s)} : c # "\r"})

\* extendPath with media for the media directory, whatever the flags are.
extendPathMedia(filename, basename) ==
    <<"/">> \o JoinText(Join(<<<<"media">>, basename>>), filename)

extendPath(filename, basename) ==
    <<"/">> \o JoinText(Join(<<flags.publicMediaDir, basename>>), filename)

RECURSIVE imageTagReplaceAll(_, _, _)
\* The replacement of a match with the text of the third group left out.
imageTagReplaceOneNoRest(line, i, repl, p, m) ==
    SubSeq(line, i, p - 1)
        \o Expand(repl, <<SubSeq(line, p, m[1]), <<>>, <<>>>>)
        \o imageTagReplaceAll(line, m[2] + 1, repl)

\* imageTag.ReplaceAllString(line, repl), from index i on; p is the index of
\* the leftmost match from i on (0: none) and m the match there.
imageTagReplaceOne(line, i, repl, p, m) ==
    SubSeq(line, i, p - 1)
        \o Expand(repl, <<SubSeq(line, p, m[1]), <<>>, SubSeq(line, m[1] + 1, m[2])>>)
        \o imageTagReplaceAll(line, m[2] + 1, repl)

imageTagReplaceAt(line, i, repl, p) ==
    IF p = 0 THEN SubSeq(line, i, Len(line))
    ELSE imageTagReplaceOne(line, i, repl, p, imageTagAt(line, p))

imageTagReplaceAll(line, i, repl) ==
    imageTagReplaceAt(line, i, repl,
                      MinOrZero({p \in i..Len(line) : imageTagAt(line, p) # <<>>}))

\* extendImagePath without the test for preformatted text.
extendImagePathAlways(line, basename) ==
    imageTagReplaceAll(line, 1, <<"$1">> \o extendPath(<<"$2">>, basename) \o <<"$3">>)

extendImagePath(line, basename) ==
    IF isPreformatted(line) THEN line
    ELSE imageTagReplaceAll(line, 1, <<"$1">> \o extendPath(<<"$2">>, basename) \o <<"$3">>)

\* srcTag.ReplaceAllString with p the index of the first src=" and r that of the
\* last .hyperesources/ after it (0: none).
srcTagReplace(src, basename, p, r) ==
    IF p = 0 \/ r = 0 THEN src
    ELSE Take(src, p - 1)
            \o Expand(<<"$1">> \o extendPath(<<"$2">>, basename),
                      <<<<"SRC">>, SubSeq(src, p + 1, r)>>)
            \o Drop(src, r)

srcTagFrom(src, basename, p) ==
    srcTagReplace(src, basename, p, LastIndexFrom(src, p + 1, "HR"))

\* srcPtrn  (src=")(.*\.hyperesources/) : the greedy group runs to the last
\* .hyperesources/ of the line, so the pattern matches at most once.
extendSrc(src, basename) == srcTagFrom(src, basename, IndexFrom(src, 1, "SRC"))

\* strings.TrimLeft(line, "\t"): the leading tabs alone are cut.
trimTabsLeft(line) == Drop(line, RunFrom(line, 1, {"\t"}))

\* strings.Trim(line, "\t\t"): leading and trailing tabs are cut.
trimTabs(line) ==
    IF RunFrom(line, 1, {"\t"}) = Len(line) THEN <<>>
    ELSE SubSeq(line, RunFrom(line, 1, {"\t"}) + 1, Len(line) - RunBack(line, {"\t"}))

\* The loop with a break at every end marker, also one before the start marker.
RECURSIVE snippetLinesEndBreaks(_, _, _)
snippetLinesEndBreaks(lines, inSnippet, basename) ==
    IF lines = <<>> THEN <<>>
    ELSE IF Contains(Head(lines), "START")
    THEN snippetLinesEndBreaks(Tail(lines), TRUE, basename)
    ELSE IF Contains(Head(lines), "END")
    THEN <<>>
    ELSE (IF inSnippet THEN <<extendSrc(trimTabs(Head(lines)), basename)>> ELSE <<>>)
            \o snippetLinesEndBreaks(Tail(lines), inSnippet, basename)

\* The loop of getHTMLSnippet over the lines of the file: the lines added to out.
RECURSIVE snippetLines(_, _, _)
snippetLines(lines, inSnippet, basename) ==
    IF lines = <<>> THEN <<>>
    ELSE IF Contains(Head(lines), "START")
    THEN snippetLines(Tail(lines), TRUE, basename)
    ELSE IF Contains(Head(lines), "END") /\ inSnippet
    THEN <<>>
    ELSE (IF inSnippet THEN <<extendSrc(trimTabs(Head(lines)), basename)>> ELSE <<>>)
            \o snippetLines(Tail(lines), inSnippet, basename)

\* getHTMLSnippet with a warning that names the document, not the path read.
getHTMLSnippetNoPath(path, basename, file) ==
    IF ~file.ok
    THEN [warning |-> basename, lines |-> <<>>]
    ELSE [warning |-> <<>>,
          lines |-> snippetLines([i \in 1..Len(file.lines) |-> removeCR(file.lines[i])],
                                 FALSE, basename) \o << <<>> >>]

\* getHTMLSnippet.  file is what ioutil.ReadFile(path) gives: [ok |-> FALSE] or
\* [ok |-> TRUE, lines |-> the lines of the file].  The result is the warning
\* with the path in it, or the kept lines, each ended by a newline, and "\n".
getHTMLSnippet(path, basename, file) ==
    IF ~file.ok
    THEN [warning |-> path, lines |-> <<>>]
    ELSE [warning |-> <<>>,
          lines |-> snippetLines([i \in 1..Len(file.lines) |-> removeCR(file.lines[i])],
                                 FALSE, basename) \o << <<>> >>]

-----------------------------------------------------------------------------
(* Output fragments                                                        *)

Frag(k, n, t, s) == [k |-> k, n |-> n, t |-> t, s |-> s]

\* div(name) = "{{< div " + name + " >}}\n"
div(name) == Frag("div", name, <<>>, <<>>)

\* divEnd(name) = "{{< divend >}} <!--" + name + "-->\n"
divEnd(name) == Frag("divEnd", name, <<>>, <<>>)

\* A fixed string literal.
Lit(text) == Frag("lit", text, <<>>, <<>>)

\* line + "\n"
TextLine(line) == Frag("line", "", line, <<>>)

\* "\n" + line + "\n\n"
DividerLine(line) == Frag("divider", "", line, <<>>)

\* The snippet (or the warning) followed by the noscript notice.
HypeHTML(snippet) ==
    Frag("hype",
         "<noscript class=\"nohype\"><em>Please enable JavaScript to view the animation.</em></noscript>\n",
         snippet.warning, snippet.lines)

\* errors.Wrap(err, "Failed generating Hype tag from line "+line).Error()
ErrorText(line) == Frag("error", "Failed generating Hype tag from line ", line, <<>>)

\* replaceHypeTag after hypeTag.FindStringSubmatch(line) has given matches.
replaceHypeTagMatches(line, basename, file, matches) ==
    IF Len(matches) = 0
    THEN [out |-> line, found |-> FALSE, err |-> FALSE]
    ELSE IF Len(matches) < 2
    THEN [out |-> <<>>, found |-> FALSE, err |-> TRUE]
    ELSE [out |-> HypeHTML(getHTMLSnippet(
                      JoinText(Join(<<flags.outDir, flags.mediaDir, basename>>), matches[2]),
                      basename, file)),
          found |-> TRUE, err |-> FALSE]

replaceHypeTag(line, basename, file) ==
    IF isPreformatted(line) THEN [out |-> line, found |-> FALSE, err |-> FALSE]
    ELSE replaceHypeTagMatches(line, basename, file, hypeTag(line))

-----------------------------------------------------------------------------
(* convert: the status values and the blocks of the loop body.  A block    *)
(* gives the new status, the fragments it appends to out, and whether it   *)
(* ends the iteration (continue) or falls through to the next block.       *)

beforefrontmatter == 0
frontmatter == 1
summary == 2
intro == 3
doc == 4
comment == 5
code == 6
none == 7

Result(st, emit, cont) == [status |-> st, emit |-> emit, cont |-> cont]

\* The Hype block after line = extendImagePath(line, base) and
\* r = replaceHypeTag(line, base): the fragments appended when an error is
\* returned or a Hype tag is found.
hypeBlockResult(ext, r) ==
    [line |-> ext,
     emit |-> (IF r.err THEN <<ErrorText(r.out)>> ELSE <<>>)
                \o (IF r.found THEN <<r.out>> ELSE <<>>),
     cont |-> r.found]

hypeBlockTag(ext, basename, file) ==
    hypeBlockResult(ext, replaceHypeTag(ext, basename, file))

\* Images and Hype animations can be located in the intro, in comments, or in
\* pure doc sections.
hypeBlock(line, basename, file) ==
    hypeBlockTag(extendImagePath(line, basename), basename, file)

\* The first block keeping the lines before the front matter.
beforefrontmatterBlockKeeps(line) ==
    IF isFrontmatterDelim(line)
    THEN Result(frontmatter, <<TextLine(line)>>, TRUE)
    ELSE Result(beforefrontmatter, <<TextLine(line)>>, TRUE)

beforefrontmatterBlock(line) ==
    IF isFrontmatterDelim(line)
    THEN Result(frontmatter, <<TextLine(line)>>, TRUE)
    ELSE Result(beforefrontmatter, <<>>, TRUE)

\* The front matter block, were the closing delimiter appended in its branch too.
frontmatterBlockTwice(line) ==
    IF isFrontmatterDelim(line)
    THEN Result(summary, <<TextLine(line), TextLine(line), div("gotohugo"),
                           div("summary doc")>>, TRUE)
    ELSE Result(frontmatter, <<TextLine(line)>>, FALSE)

frontmatterBlock(line) ==
    IF isFrontmatterDelim(line)
    THEN Result(summary, <<TextLine(line), div("gotohugo"), div("summary doc")>>, TRUE)
    ELSE Result(frontmatter, <<TextLine(line)>>, FALSE)

\* The summary block with the announcement after the intro section is opened.
summaryBlockIntroFirst(line) ==
    IF isSummaryDivider(line)
    THEN Result(intro, <<divEnd("summary doc"), DividerLine(line),
                         div("intro doc"), Lit("{{< announcement >}}\n")>>, TRUE)
    ELSE Result(summary, <<TextLine(line)>>, TRUE)

\* The summary block, were the line comments of the summary stripped.
summaryBlockStrips(line) ==
    IF isSummaryDivider(line)
    THEN Result(intro, <<divEnd("summary doc"), DividerLine(line),
                         Lit("{{< announcement >}}\n"), div("intro doc")>>, TRUE)
    ELSE IF isLineComment(line)
    THEN Result(summary, <<TextLine(stripComment(line))>>, TRUE)
    ELSE Result(summary, <<TextLine(line)>>, TRUE)

summaryBlock(line) ==
    IF isSummaryDivider(line)
    THEN Result(intro, <<divEnd("summary doc"), DividerLine(line),
                         Lit("{{< announcement >}}\n"), div("intro doc")>>, TRUE)
    ELSE Result(summary, <<TextLine(line)>>, TRUE)

introBlock(line) ==
    IF isCommentEnd(line)
    THEN Result(none, <<divEnd("intro doc")>>, TRUE)
    ELSE Result(intro, <<TextLine(line)>>, TRUE)

\* The line-comment block, were the code fence left open after code.
lineCommentBlockNoFence(st, line) ==
    IF isLineComment(line)
    THEN Result(comment,
                (IF st = code
                 THEN <<divEnd("code"), divEnd("ccpair"), div("ccpair")>>
                 ELSE <<>>)
                \o (IF st = none THEN <<div("source"), div("ccpair")>> ELSE <<>>)
                \o <<div("comment"), TextLine(stripComment(line))>>,
                TRUE)
    ELSE Result(st, <<>>, FALSE)

\* The line-comment block, were a source section started after code as well.
lineCommentBlockSourceAlways(st, line) ==
    IF isLineComment(line)
    THEN Result(comment,
                (IF st = code
                 THEN <<Lit("<BT><BT><BT>\n\n"), divEnd("code"), divEnd("ccpair"), div("ccpair")>>
                 ELSE <<>>)
                \o <<div("source"), div("ccpair")>>
                \o <<div("comment"), TextLine(stripComment(line))>>,
                TRUE)
    ELSE Result(st, <<>>, FALSE)

\* if status == none || status == code
lineCommentBlock(st, line) ==
    IF isLineComment(line)
    THEN Result(comment,
                (IF st = code
                 THEN <<Lit("<BT><BT><BT>\n\n"), divEnd("code"), divEnd("ccpair"), div("ccpair")>>
                 ELSE <<>>)
                \o (IF st = none THEN <<div("source"), div("ccpair")>> ELSE <<>>)
                \o <<div("comment"), TextLine(stripComment(line))>>,
                TRUE)
    ELSE Result(st, <<>>, FALSE)

\* The comment block, were an empty line to stay in the comment.
commentBlockStaysOnEmpty(line) ==
    IF isLineComment(line) \/ line = <<>>
    THEN Result(comment, <<TextLine(stripComment(line))>>, TRUE)
    ELSE Result(code, <<divEnd("comment"), div("code"), Lit("\n<BT><BT><BT>go\n"), TextLine(line)>>, TRUE)

\* if status == comment
commentBlock(line) ==
    IF isLineComment(line)
    THEN Result(comment, <<TextLine(stripComment(line))>>, TRUE)
    ELSE Result(code, <<divEnd("comment"), div("code"), Lit("\n<BT><BT><BT>go\n"), TextLine(line)>>, TRUE)

\* The code block, were the start of a block comment written with its delimiter.
codeBlockKeepsDelimiter(line) ==
    IF isLineComment(line)
    THEN Result(comment, <<Lit("<BT><BT><BT>\n\n"), divEnd("code"), divEnd("ccpair"), div("ccpair"),
                           div("comment"), TextLine(stripComment(line))>>, TRUE)
    ELSE IF isCommentStart(line)
    THEN Result(doc, <<Lit("<BT><BT><BT>\n\n"), divEnd("code"), divEnd("ccpair"), divEnd("source"),
                       div("doc"), TextLine(line)>>, TRUE)
    ELSE Result(code, <<TextLine(line)>>, TRUE)

\* The code block, were a summary divider in the code to announce again.
codeBlockAnnounces(line) ==
    IF isLineComment(line)
    THEN Result(comment, <<Lit("<BT><BT><BT>\n\n"), divEnd("code"), divEnd("ccpair"), div("ccpair"),
                           div("comment"), TextLine(stripComment(line))>>, TRUE)
    ELSE IF isCommentStart(line)
    THEN Result(doc, <<Lit("<BT><BT><BT>\n\n"), divEnd("code"), divEnd("ccpair"), divEnd("source"),
                       div("doc"), TextLine(stripCommentStart(line))>>, TRUE)
    ELSE IF isSummaryDivider(line)
    THEN Result(code, <<DividerLine(line), Lit("{{< announcement >}}\n")>>, TRUE)
    ELSE Result(code, <<TextLine(line)>>, TRUE)

\* if status == code
codeBlock(line) ==
    IF isLineComment(line)
    THEN Result(comment, <<Lit("<BT><BT><BT>\n\n"), divEnd("code"), divEnd("ccpair"), div("ccpair"),
                           div("comment"), TextLine(stripComment(line))>>, TRUE)
    ELSE IF isCommentStart(line)
    THEN Result(doc, <<Lit("<BT><BT><BT>\n\n"), divEnd("code"), divEnd("ccpair"), divEnd("source"),
                       div("doc"), TextLine(stripCommentStart(line))>>, TRUE)
    ELSE Result(code, <<TextLine(line)>>, TRUE)

\* The doc block, were the end of the block comment to close no marker.
docBlockNoClose(line) ==
    IF isCommentEnd(line)
    THEN Result(none, <<>>, TRUE)
    ELSE Result(doc, <<TextLine(line)>>, TRUE)

\* The doc block, were the text before the end of the block comment written.
docBlockKeepsText(line) ==
    IF isCommentEnd(line)
    THEN Result(none, <<TextLine(line), divEnd("doc")>>, TRUE)
    ELSE Result(doc, <<TextLine(line)>>, TRUE)

\* if status == doc
docBlock(line) ==
    IF isCommentEnd(line)
    THEN Result(none, <<divEnd("doc")>>, TRUE)
    ELSE Result(doc, <<TextLine(line)>>, TRUE)

\* The last block, were the start of a block comment to open a doc section.
noneBlockOpensDoc(line) ==
    IF isCommentStart(line)
    THEN Result(doc, <<div("doc"), TextLine(stripCommentStart(line))>>, TRUE)
    ELSE Result(none, <<TextLine(line)>>, TRUE)

\* if status == none
noneBlock(line) == Result(none, <<TextLine(line)>>, TRUE)

\* The cleanup without the divEnd of the comment/code pair.
endOfDocumentCodeOnly(st) ==
    (IF st = code THEN <<Lit("\n<BT><BT><BT>\n"), divEnd("code")>> ELSE <<>>)
        \o <<divEnd("gotohugo")>>

\* After the loop: the closing code fence and divs, and the gotohugo divEnd.
endOfDocument(st) ==
    (IF st = code THEN <<Lit("\n<BT><BT><BT>\n"), divEnd("code"), divEnd("ccpair")>> ELSE <<>>)
        \o <<divEnd("gotohugo")>>

\* The blocks after the line-comment block lc, when lc did not continue.
afterLineComment(st, line, lc) ==
    IF lc.cont THEN lc
    ELSE IF st = comment THEN commentBlock(line)
    ELSE IF st = code THEN codeBlock(line)
    ELSE IF st = doc THEN docBlock(line)
    ELSE noneBlock(line)

\* The status blocks with the summary divider taken in every later status too.
statusBlocksDividerLater(st, line) ==
    IF st = beforefrontmatter THEN beforefrontmatterBlock(line)
    ELSE IF st = frontmatter THEN frontmatterBlock(line)
    ELSE IF isSummaryDivider(line) THEN summaryBlock(line)
    ELSE IF st = summary THEN summaryBlock(line)
    ELSE IF st = intro THEN introBlock(line)
    ELSE afterLineComment(st, line,
                          IF st = none \/ st = code THEN lineCommentBlock(st, line)
                          ELSE Result(st, <<>>, FALSE))

\* The blocks after the Hype block, in the order of the loop body.
statusBlocks(st, line) ==
    IF st = beforefrontmatter THEN beforefrontmatterBlock(line)
    ELSE IF st = frontmatter THEN frontmatterBlock(line)
    ELSE IF st = summary THEN summaryBlock(line)
    ELSE IF st = intro THEN introBlock(line)
    ELSE afterLineComment(st, line,
                          IF st = none \/ st = code THEN lineCommentBlock(st, line)
                          ELSE Result(st, <<>>, FALSE))

\* The rest of the iteration after the Hype block h, which did not continue.
prepend(emit, r) == Result(r.status, emit \o r.emit, r.cont)

\* The Hype block without its continue: the status blocks run on every line.
afterHypeBlockFallsThrough(st, h) == prepend(h.emit, statusBlocks(st, h.line))

afterHypeBlock(st, h) ==
    IF h.cont THEN Result(st, h.emit, TRUE)
    ELSE prepend(h.emit, statusBlocks(st, h.line))

\* One iteration of convert's loop.
iteration(st, line, basename, file) ==
    IF st = doc \/ st = comment \/ st = intro
    THEN afterHypeBlock(st, hypeBlock(line, basename, file))
    ELSE statusBlocks(st, line)

\* convert's loop over lines, from status st with acc appended so far, every
\* read of a Hype file giving file: the status and the output after the loop.
RECURSIVE loop(_, _, _, _, _)
loopStep(lines, r, acc, basename, file) ==
    loop(lines, r.status, acc \o r.emit, basename, file)

loop(lines, st, acc, basename, file) ==
    IF lines = <<>> THEN [status |-> st, out |-> acc]
    ELSE loopStep(Tail(lines), iteration(st, removeCR(Head(lines)), basename, file),
                  acc, basename, file)

convertEnd(l) == l.out \o endOfDocument(l.status)

\* convert(in, base), in being the lines of the text.
convert(lines, basename, file) ==
    convertEnd(loop(lines, beforefrontmatter, <<>>, basename, file))

-----------------------------------------------------------------------------
(* The input lines, files and flags of the model                           *)

LSlashStar == <<"/", "*">>
LPlus == <<"+", "+", "+">>
LDash == <<"-", "-", "-">>
LText == <<"x">>
LEmpty == <<>>
LMore == <<"MORE">>
LStarSlash == <<"*", "/">>
LTextEnd == <<"x", " ", "*", "/">>
LComment == <<"/", "/", " ", "x">>
LCommentCR == <<"/", "/", " ", "x", "\r">>
LDocStart == <<"/", "*", " ", "x">>
LHype == <<"HYPE", "[", "x", "]", "(", "x", ")">>
LHypeEnd == LHype \o <<" ", "*", "/">>
LHypeCode == <<"BT">> \o LHype \o <<"BT">>
LHypeNoPath == <<"HYPE", "[", "x", "]", "(", ")">>
LImage == <<"!", "[", "x", "]", "(", "x", ")">>
LDocStartImage == <<"/", "*", " ">> \o LImage

\* The lines a document may hold where the loop is in status st: a line of
\* every kind that the blocks of that status tell apart.
Pool(st) ==
    CASE st = beforefrontmatter -> {LSlashStar, LPlus}
      [] st = frontmatter -> {LText, LDash}
      [] st = summary -> {LComment, LMore, LDocStartImage, LHypeEnd}
      [] st = intro -> {LMore, LImage, LHypeNoPath, LHypeEnd, LStarSlash}
      [] st = none -> {LText, LMore, LComment, LDocStart}
      [] st = comment -> {LComment, LCommentCR, LText, LEmpty, LMore, LDocStart, LHype}
      [] st = code -> {LText, LDash, LMore, LComment, LDocStart}
      [] st = doc -> {LText, LMore, LImage, LHype, LHypeCode, LTextEnd, LStarSlash}

\* Lines of a summary that is never ended: the documents whose summary holds
\* one of them have no summary divider after it.
SummaryOnly == {LDocStartImage, LHypeEnd}

\* The lines the document may go on with in status st after the lines read.
NextLines(st, read) ==
    IF st = summary /\ \E i \in 1..Len(read) : read[i] \in SummaryOnly
    THEN Pool(st) \ {LMore}
    ELSE Pool(st)

\* The longest document, in lines.
MaxLines == 8

\* What ioutil.ReadFile gives for a Hype HTML export: no file, or its lines.
NoFile == [ok |-> FALSE]

HypeFile ==
    [ok |-> TRUE,
     lines |-> << <<"x">>, <<"START">>, <<"\t", "SRC", "x", "HR", "x">>, <<"END">>, <<"x">> >>]

Files == {NoFile, HypeFile}

\* The command lines: no flag, and -hugo.
FlagSets == {main(<<>>, <<>>, <<"out">>), main(<<"hugo">>, <<>>, <<"out">>)}

BaseNames == {<<"b">>}

-----------------------------------------------------------------------------
(* convertFile                                                             *)

Init ==
    /\ pc = "start"
    /\ flags \in FlagSets
    /\ base \in BaseNames
    /\ in = <<>>
    /\ status = beforefrontmatter
    /\ out = <<>>
    /\ err = "nil"
    /\ written = FALSE
    /\ stripped = <<>>
    /\ NoDocument /\ NoArgs /\ NoSnippet /\ NoCalls /\ NoWatch

\* ioutil.ReadFile(filename) succeeds: convert is called.
ReadSource ==
    /\ pc = "start"
    /\ pc' = "loop"
    /\ UNCHANGED <<flags, base, in, status, out, err, written, stripped,
                 rest, inText, args, snippetVars, callVars, watchVars>>

\* ioutil.ReadFile(filename) fails: log.Fatal ends the process.
ReadSourceFails ==
    /\ pc = "start"
    /\ pc' = "fatal"
    /\ UNCHANGED <<flags, base, in, status, out, err, written, stripped,
                 rest, inText, args, snippetVars, callVars, watchVars>>

\* Whether the Hype block ends the iteration for this line.
hypeFound(st, line) ==
    (st = doc \/ st = comment \/ st = intro) /\ hypeBlock(line, base, NoFile).cont

\* The assignments of an iteration with result r on the input line raw.
Iterate(raw, r) ==
    /\ status' = r.status
    /\ out' = out \o r.emit
    /\ in' = Append(in, raw)

\* An iteration of the loop that the Hype block does not end.
Line ==
    /\ pc = "loop"
    /\ Len(in) < MaxLines
    /\ \E raw \in NextLines(status, in) :
          /\ ~hypeFound(status, removeCR(raw))
          /\ Iterate(raw, iteration(status, removeCR(raw), base, NoFile))
    /\ UNCHANGED <<pc, flags, base, err, written, stripped, rest, inText, args, snippetVars,
                 callVars, watchVars>>

BeforeFrontmatterLine ==
    /\ status = beforefrontmatter
    /\ Line

FrontmatterLine ==
    /\ status = frontmatter
    /\ Line

SummaryLine ==
    /\ status = summary
    /\ Line

IntroLine ==
    /\ status = intro
    /\ Line

NoneLine ==
    /\ status = none
    /\ Line

CommentLine ==
    /\ status = comment
    /\ Line

CodeLine ==
    /\ status = code
    /\ Line

DocLine ==
    /\ status = doc
    /\ Line

\* An iteration that finds a Hype tag: the file is read, its snippet appended.
HypeLine ==
    /\ pc = "loop"
    /\ Len(in) < MaxLines
    /\ \E raw \in Pool(status), file \in Files :
          /\ hypeFound(status, removeCR(raw))
          /\ Iterate(raw, iteration(status, removeCR(raw), base, file))
    /\ UNCHANGED <<pc, flags, base, err, written, stripped, rest, inText, args, snippetVars,
                 callVars, watchVars>>

\* The input is exhausted (strings.Split gives at least one line): the code
\* after the loop, and convert returns out to convertFile.
EndOfInput ==
    /\ pc = "loop"
    /\ Len(in) >= 1
    /\ out' = out \o endOfDocument(status)
    /\ pc' = "write"
    /\ UNCHANGED <<flags, base, in, status, err, written, stripped,
                 rest, inText, args, snippetVars, callVars, watchVars>>

\* ioutil.WriteFile(outname, md): convertFile returns nil, or the wrapped error.
WriteFile ==
    /\ pc = "write"
    /\ \E ok \in BOOLEAN :
          /\ written' = ok
          /\ err' = IF ok THEN "nil" ELSE "Cannot write file"
    /\ pc' = "done"
    /\ UNCHANGED <<flags, base, in, status, out, stripped,
                 rest, inText, args, snippetVars, callVars, watchVars>>

Next ==
    \/ ReadSource
    \/ ReadSourceFails
    \/ BeforeFrontmatterLine
    \/ FrontmatterLine
    \/ SummaryLine
    \/ IntroLine
    \/ NoneLine
    \/ CommentLine
    \/ CodeLine
    \/ DocLine
    \/ HypeLine
    \/ EndOfInput
    \/ WriteFile

Spec == Init /\ [][Next]_vars

-----------------------------------------------------------------------------
(* Stripping the line-comment delimiter, on its own                        *)

StripAlphabet == {" ", "/", "x"}

\* The longest line stripped.
MaxStripLen == 5

\* How often the delimiter is stripped from a line.
MaxStrips == 2

StripLines == UNION {[1..n -> StripAlphabet] : n \in 0..MaxStripLen}

InitStrip ==
    /\ pc = "strip"
    /\ stripped \in {<<line>> : line \in StripLines}
    /\ flags = main(<<>>, <<>>, <<"out">>)
    /\ base = <<"b">>
    /\ in = <<>>
    /\ status = beforefrontmatter
    /\ out = <<>>
    /\ err = "nil"
    /\ written = FALSE
    /\ NoDocument /\ NoArgs /\ NoSnippet /\ NoCalls /\ NoWatch

\* commentRe.ReplaceAllString(line, "") applied to the text got last.
StripDelimiter ==
    /\ pc = "strip"
    /\ Len(stripped) <= MaxStrips
    /\ stripped' = Append(stripped, stripComment(Last(stripped)))
    /\ UNCHANGED <<pc, flags, base, in, status, out, err, written,
                 rest, inText, args, snippetVars, callVars, watchVars>>

NextStrip == StripDelimiter

StripSpec == InitStrip /\ [][NextStrip]_vars

-----------------------------------------------------------------------------
(* One iteration of convert's loop on a line with an image or Hype tag     *)

\* The most spaces between "(" and the path of a tag.
MaxLead == 1

Spaces(n) == [i \in 1..n |-> " "]

\* ![alt](path) or HYPE[alt](path), with spaces before the path and a title
\* after it.
Tag(kind, lead, path, title) ==
    kind \o <<"[", "a", "]", "(">> \o Spaces(lead) \o path \o title \o <<")">>

TagKinds == {<<"!">>, <<"HYPE">>}

TagPaths == {<<"p">>, <<"a", " ", "p">>}

TagTitles == {<<>>, <<" ", "\"", "T", "\"">>}

Tags ==
    {Tag(kind, lead, path, title) :
        kind \in TagKinds, lead \in 0..MaxLead, path \in TagPaths, title \in TagTitles}

\* What a line has before and after its tag.
TagPrefixes == {<<>>, <<"/", "/", " ">>, <<"/", "*", " ">>, <<"BT">>, <<"x", " ">>}

TagSuffixes == {<<>>, <<"BT">>, <<" ", "x">>, <<" ", "*", "/">>}

TagLines == {pre \o tag \o post : pre \in TagPrefixes, tag \in Tags, post \in TagSuffixes}

\* Lines without a tag: empty, text, a line comment, the start and the end of a
\* block comment, and text before the end of a block comment.
PlainLines == {LEmpty, LText, LComment, LDocStart, LStarSlash, LTextEnd}

\* The lines of a document before the line: they end in intro, doc, comment,
\* none and code.
TagDocuments ==
    {<<LPlus, LDash, LMore>>,
     <<LPlus, LDash, LMore, LStarSlash, LComment, LText, LDocStart>>,
     <<LPlus, LDash, LMore, LStarSlash, LComment>>,
     <<LPlus, LDash, LMore, LStarSlash>>,
     <<LPlus, LDash, LMore, LStarSlash, LComment, LText>>}

LineInit ==
    /\ pc = "line"
    /\ flags \in FlagSets
    /\ base \in BaseNames
    /\ in \in TagDocuments
    /\ status = loop(in, beforefrontmatter, <<>>, base, NoFile).status
    /\ out = loop(in, beforefrontmatter, <<>>, base, NoFile).out
    /\ err = "nil"
    /\ written = FALSE
    /\ stripped = <<>>
    /\ NoDocument /\ NoArgs /\ NoSnippet /\ NoCalls /\ NoWatch

\* The iteration of the loop for the next line of the document.
ConvertLine ==
    /\ pc = "line"
    /\ \E raw \in TagLines \cup PlainLines, file \in Files :
          Iterate(raw, iteration(status, removeCR(raw), base, file))
    /\ pc' = "lined"
    /\ UNCHANGED <<flags, base, err, written, stripped,
                 rest, inText, args, snippetVars, callVars, watchVars>>

LineNext == ConvertLine

LineSpec == LineInit /\ [][LineNext]_vars

-----------------------------------------------------------------------------
(* getHTMLSnippet on the lines of a Hype HTML export                       *)

\* The lines of a file: text, the start marker, the end marker, a line with
\* both markers, a line within tabs, a line with a src attribute after a tab,
\* and a line that ends with a carriage return.
SnippetAlphabet ==
    {<<"x">>, <<"y">>, <<"START">>, <<"END">>, <<"START", "END">>,
     <<"\t", "x", "\t">>, <<"\t", "SRC", "x", "HR", "x">>, <<"x", "\r">>}

\* The longest file, in lines.
MaxFileLines == 4

SnippetFiles == UNION {[1..n -> SnippetAlphabet] : n \in 1..MaxFileLines}

SnippetInit ==
    /\ pc = "snippet"
    /\ flags \in FlagSets
    /\ base \in BaseNames
    /\ hypeHTML \in SnippetFiles
    /\ htmlSnippet = <<>>
    /\ in = <<>>
    /\ status = beforefrontmatter
    /\ out = <<>>
    /\ err = "nil"
    /\ written = FALSE
    /\ stripped = <<>>
    /\ NoDocument /\ NoArgs /\ NoCalls /\ NoWatch

\* getHTMLSnippet(path, basename) where ioutil.ReadFile(path) gives the file.
ReadSnippet ==
    /\ pc = "snippet"
    /\ htmlSnippet' = getHTMLSnippet(<<"p">>, base, [ok |-> TRUE, lines |-> hypeHTML])
    /\ pc' = "snippetRead"
    /\ UNCHANGED <<flags, base, in, status, out, err, written, stripped, rest, inText, args,
                   hypeHTML, callVars, watchVars>>

SnippetNext == ReadSnippet

SnippetSpec == SnippetInit /\ [][SnippetNext]_vars

-----------------------------------------------------------------------------
(* convert on a given text                                                 *)

\* The lines of a text: some follow the conventions of a document, some do not.
DocAlphabet == {LEmpty, LPlus, LMore, LStarSlash, LComment, LHype}

\* The longest text, in lines.
MaxDocLines == 4

\* strings.Split(in, "\n") gives at least one line: the empty text is <<LEmpty>>.
Docs == UNION {[1..n -> DocAlphabet] : n \in 1..MaxDocLines}

\* The range loop stepping to its next line, with the line taken again.
remainingSame(lines) == lines

\* The range loop stepping to its next line.
remaining(lines) == Tail(lines)

DocInit ==
    /\ pc = "convert"
    /\ flags \in FlagSets
    /\ base \in BaseNames
    /\ rest = <<>>
    /\ inText = <<>>
    /\ in = <<>>
    /\ status = beforefrontmatter
    /\ out = <<>>
    /\ err = "nil"
    /\ written = FALSE
    /\ stripped = <<>>
    /\ NoArgs /\ NoSnippet /\ NoCalls /\ NoWatch

\* convert is called with a text: strings.Split(in, "\n") gives its lines.
SplitLines ==
    /\ pc = "convert"
    /\ rest' \in Docs
    /\ pc' = "loop"
    /\ UNCHANGED <<flags, base, in, status, out, err, written, stripped, inText, args,
                   snippetVars, callVars, watchVars>>

\* An iteration of the loop on the next line of the text.
LoopIteration ==
    /\ pc = "loop"
    /\ rest # <<>>
    /\ \E file \in Files :
          /\ hypeFound(status, removeCR(Head(rest))) \/ file = NoFile
          /\ Iterate(Head(rest), iteration(status, removeCR(Head(rest)), base, file))
    /\ rest' = remaining(rest)
    /\ UNCHANGED <<pc, flags, base, err, written, stripped, inText, args, snippetVars, callVars,
                   watchVars>>

\* The loop has taken every line: the code after it, and convert returns out.
LoopEnd ==
    /\ pc = "loop"
    /\ rest = <<>>
    /\ out' = out \o endOfDocument(status)
    /\ pc' = "returned"
    /\ UNCHANGED <<flags, base, in, status, err, written, stripped, rest, inText, args,
                   snippetVars, callVars, watchVars>>

DocNext == SplitLines \/ LoopIteration \/ LoopEnd

DocSpec == DocInit /\ [][DocNext]_vars

-----------------------------------------------------------------------------
(* convert on the text of a document                                       *)

\* strings.Split(s, "\n"): the texts between the newlines of s, at least one.
RECURSIVE Split(_)
Split(s) ==
    IF ~Contains(s, "\n") THEN <<s>>
    ELSE <<Take(s, IndexFrom(s, 1, "\n") - 1)>> \o Split(Drop(s, IndexFrom(s, 1, "\n")))

dropLastEmpty(lines) ==
    IF Len(lines) > 1 /\ Last(lines) = <<>> THEN Take(lines, Len(lines) - 1) ELSE lines

\* The lines of the text, were the empty string after a final newline no line.
textLinesTrimmed(s) == dropLastEmpty(Split(removeCR(s)))

\* The lines that the loop of convert ranges over.
textLines(s) == Split(removeCR(s))

\* The lines of a text after the head of a document; some hold carriage returns.
LCommentCRs == <<"/", "\r", "/", " ", "x", "\r">>

TextAlphabet == {LComment, LCommentCR, LCommentCRs, LText, LEmpty, LDocStart}

\* The heads of the documents: one for each status in which a head can end.
TextHeads ==
    {<<>>,
     <<LPlus, LDash>>,
     <<LPlus, LDash, LMore>>,
     <<LPlus, LDash, LMore, LStarSlash>>,
     <<LPlus, LDash, LMore, LStarSlash, LComment>>,
     <<LPlus, LDash, LMore, LStarSlash, LComment, LText>>,
     <<LPlus, LDash, LMore, LStarSlash, LComment, LText, LDocStart>>}

\* The most lines after the head.
MaxTextLines == 2

TextTails == UNION {[1..n -> TextAlphabet] : n \in 1..MaxTextLines}

\* The text of lines, a newline between two lines.
RECURSIVE joinLines(_)
joinLines(lines) ==
    IF lines = <<>> THEN <<>>
    ELSE IF Len(lines) = 1 THEN Head(lines)
    ELSE Head(lines) \o <<"\n">> \o joinLines(Tail(lines))

\* How a text ends: with its last line, with a newline, with CR and newline.
TextEnds == {<<>>, <<"\n">>, <<"\r", "\n">>}

Texts == {joinLines(h \o t) \o e : h \in TextHeads, t \in TextTails, e \in TextEnds}

TextInit ==
    /\ pc = "convert"
    /\ flags \in FlagSets
    /\ base \in BaseNames
    /\ inText \in Texts
    /\ rest = <<>>
    /\ in = <<>>
    /\ status = beforefrontmatter
    /\ out = <<>>
    /\ err = "nil"
    /\ written = FALSE
    /\ stripped = <<>>
    /\ NoArgs /\ NoSnippet /\ NoCalls /\ NoWatch

\* convert is called with the text: the carriage returns go, the rest is split.
SplitText ==
    /\ pc = "convert"
    /\ rest' = textLines(inText)
    /\ pc' = "loop"
    /\ UNCHANGED <<flags, base, in, status, out, err, written, stripped, inText, args,
                   snippetVars, callVars, watchVars>>

TextNext == SplitText \/ LoopIteration \/ LoopEnd

TextSpec == TextInit /\ [][TextNext]_vars

-----------------------------------------------------------------------------

(* convert, called from several places at once                             *)

\* newConvertFunc gives each timer its own function, and a timer runs it in a
\* goroutine of its own: calls of convert overlap. A call is a record of its
\* parameters (text, base), its locals (rest, status, out), its position and
\* the files that its reads have given.

\* The texts: a Hype tag in the intro, an image tag and a comment, and a Hype
\* tag with no front matter before it.
CallDocs ==
    {<<LPlus, LDash, LMore, LHype>>,
     <<LPlus, LDash, LMore, LImage, LStarSlash, LComment>>,
     <<LHype>>}

CallBases == {<<"b">>, <<"c">>}

Callers == {1, 2}

\* A call at its entry.
newCall(text, b) ==
    [text |-> text, base |-> b, rest |-> text, status |-> beforefrontmatter,
     out |-> <<>>, pc |-> "loop", reads |-> <<>>]

\* The status of call i, were status a variable of the package.
callStatusShared(cs, i) == cs[1].status

\* The status of call i: a local of convert.
callStatus(cs, i) == cs[i].status

\* The output of call i, were out a variable of the package.
callOutShared(cs, i) == cs[1].out

\* The output of call i: the named result of convert.
callOut(cs, i) == cs[i].out

\* The line of the next iteration of call i.
callLine(i) == removeCR(Head(calls[i].rest))

\* The next iteration of call i replaces a Hype tag: it reads the Hype file.
callReads(i) ==
    /\ callStatus(calls, i) \in {doc, comment, intro}
    /\ hypeBlock(callLine(i), calls[i].base, NoFile).cont

\* Call i after an iteration with result r.
callAfter(i, r) ==
    [calls[i] EXCEPT !.rest = Tail(@),
                     !.status = r.status,
                     !.out = callOut(calls, i) \o r.emit,
                     !.reads = IF callReads(i) THEN Append(@, hypeFile[calls[i].base]) ELSE @]

CallInit ==
    /\ pc = "calls"
    /\ flags \in FlagSets
    /\ base = <<>>
    /\ calls \in [Callers -> {newCall(t, b) : t \in CallDocs, b \in CallBases}]
    /\ hypeFile \in [CallBases -> Files]
    /\ in = <<>>
    /\ status = beforefrontmatter
    /\ out = <<>>
    /\ err = "nil"
    /\ written = FALSE
    /\ stripped = <<>>
    /\ NoDocument /\ NoArgs /\ NoSnippet /\ NoWatch

\* An iteration of the loop of call i.
CallIteration(i) ==
    /\ calls[i].pc = "loop"
    /\ calls[i].rest # <<>>
    /\ calls' = [calls EXCEPT ![i] =
                    callAfter(i, iteration(callStatus(calls, i), callLine(i), calls[i].base,
                                           hypeFile[calls[i].base]))]
    /\ UNCHANGED <<hypeFile, pc, flags, base, in, status, out, err, written, stripped, rest, inText,
                   args, snippetVars, watchVars>>

\* The loop of call i has taken every line: the code after it, and the return.
CallReturn(i) ==
    /\ calls[i].pc = "loop"
    /\ calls[i].rest = <<>>
    /\ calls' = [calls EXCEPT ![i] =
                    [@ EXCEPT !.out = callOut(calls, i) \o endOfDocument(callStatus(calls, i)),
                              !.pc = "returned"]]
    /\ UNCHANGED <<hypeFile, pc, flags, base, in, status, out, err, written, stripped, rest, inText,
                   args, snippetVars, watchVars>>

\* Hype exports the animation of base name b again, or the export is removed.
ExportHype ==
    /\ \E b \in CallBases, f \in Files :
          /\ hypeFile[b] # f
          /\ hypeFile' = [hypeFile EXCEPT ![b] = f]
    /\ UNCHANGED <<calls, pc, flags, base, in, status, out, err, written, stripped, rest, inText,
                   args, snippetVars, watchVars>>

FirstCallIteration == CallIteration(1)

SecondCallIteration == CallIteration(2)

FirstCallReturn == CallReturn(1)

SecondCallReturn == CallReturn(2)

CallNext ==
    \/ FirstCallIteration
    \/ SecondCallIteration
    \/ FirstCallReturn
    \/ SecondCallReturn
    \/ ExportHype

CallSpec == CallInit /\ [][CallNext]_vars

-----------------------------------------------------------------------------
(* main: flags and environment                                             *)

\* The command line and the environment: the value of -hugo and of $HUGODIR
\* (the empty string when -hugo is not given, when $HUGODIR is not set), and
\* -out, given with a value or not given.
NotGiven == [given |-> FALSE]

Given(value) == [given |-> TRUE, value |-> value]

HugoFlags == {<<>>, <<"h">>, <<"g">>, <<"h", "g">>}

HugoEnvs == {<<>>, <<"e">>, <<"h">>, <<"f">>}

OutFlags == {NotGiven, Given(<<>>), Given(<<"o">>), Given(<<"out">>), Given(<<"h">>)}

\* flag.String("out", "out", ...): the value of -out after flag.Parse.
flagString(arg) == IF arg.given THEN arg.value ELSE <<"out">>

\* The package variables before main runs.
FlagInit ==
    /\ pc = "main"
    /\ args \in [hugo : HugoFlags, env : HugoEnvs, out : OutFlags]
    /\ flags = [outDir |-> <<"out">>, postDir |-> <<>>, mediaDir |-> <<>>,
                publicMediaDir |-> <<>>]
    /\ base \in BaseNames
    /\ in = <<>>
    /\ status = beforefrontmatter
    /\ out = <<>>
    /\ err = "nil"
    /\ written = FALSE
    /\ stripped = <<>>
    /\ NoDocument /\ NoSnippet /\ NoCalls /\ NoWatch

\* main, from flag.Parse to the setting of the directories.
SetDirs ==
    /\ pc = "main"
    /\ flags' = main(args.hugo, args.env, flagString(args.out))
    /\ pc' = "dirsSet"
    /\ UNCHANGED <<base, in, status, out, err, written, stripped, rest, inText, args,
                   snippetVars, callVars, watchVars>>

FlagNext == SetDirs

FlagSpec == FlagInit /\ [][FlagNext]_vars

-----------------------------------------------------------------------------
(* watchAndConvert                                                         *)

\* A file name is the sequence of its characters, ".go" being one of them; a
\* path is the sequence of its names.

\* The most events that the loop receives, and the most ticks of the watchdog.
MaxEvents == 2

MaxTicks == 1

\* An entry of ioutil.ReadDir(dirname): its name, and whether it is a directory.
Entry(name, isDir) == [name |-> name, dir |-> isDir]

\* What ReadDir may give, sorted by name: no entry, directories a and b, and a
\* file f that is not a directory.
EntryLists ==
    {<<>>,
     <<Entry(<<"a">>, TRUE)>>,
     <<Entry(<<"f">>, FALSE)>>,
     <<Entry(<<"a">>, TRUE), Entry(<<"b">>, TRUE)>>,
     <<Entry(<<"a">>, TRUE), Entry(<<"f">>, FALSE)>>}

\* filepath.Join(fname, fname+".go").
fpath(fname) == <<fname, fname \o <<".go">> >>

\* The names of the events: a/a.go, another file of a, b/b.go and f/f.go.
EventNames == {fpath(<<"a">>), << <<"a">>, <<"x", ".go">> >>, fpath(<<"b">>), fpath(<<"f">>)}

\* The operations of the events: an fsnotify.Op is a set of bits.
EventOps == {{"Create"}, {"Write", "Chmod"}, {"Remove"}, {"Chmod"}}

\* event.Op&(fsnotify.Create|fsnotify.Write) != 0, were every operation to count.
triggersAny(op) == op # {}

\* event.Op&(fsnotify.Create|fsnotify.Write) != 0.
triggers(op) == op \cap {"Create", "Write"} # {}

\* The directories of entries that have no timer yet.
dirsLeft == {i \in 1..Len(entries) : entries[i].dir /\ fpath(entries[i].name) \notin DOMAIN watchedPath}

\* The timer of path p set to state t ("running" or "stopped").
setTimer(p, t) == [q \in DOMAIN watchedPath \cup {p} |-> IF q = p THEN t ELSE watchedPath[q]]

\* ioutil.ReadDir(dirname) has given entries, and watchedPath is empty.
WatchInit ==
    /\ pc = "range"
    /\ entries \in EntryLists
    /\ watchedPath = <<>>
    /\ events = <<>>
    /\ started = <<>>
    /\ progress = <<>>
    /\ ticks = 0
    /\ flags \in FlagSets
    /\ base = <<>>
    /\ in = <<>>
    /\ status = beforefrontmatter
    /\ out = <<>>
    /\ err = "nil"
    /\ written = FALSE
    /\ stripped = <<>>
    /\ NoDocument /\ NoArgs /\ NoSnippet /\ NoCalls

\* watchedPath[fpath] = time.AfterFunc(time.Second, newConvertFunc(fpath)), for
\* the next directory of entries.
AfterFunc ==
    /\ pc = "range"
    /\ dirsLeft # {}
    /\ watchedPath' = setTimer(fpath(entries[MinOrZero(dirsLeft)].name), "running")
    /\ pc' = "stop"
    /\ UNCHANGED <<entries, events, started, progress, ticks, flags, base, in, status, out, err,
                   written, stripped, rest, inText, args, snippetVars, callVars>>

\* watchedPath[fpath].Stop(), the statement after time.AfterFunc.
StopTimer ==
    /\ pc = "stop"
    /\ watchedPath' = setTimer(CHOOSE p \in DOMAIN watchedPath : watchedPath[p] = "running",
                               "stopped")
    /\ pc' = "range"
    /\ UNCHANGED <<entries, events, started, progress, ticks, flags, base, in, status, out, err,
                   written, stripped, rest, inText, args, snippetVars, callVars>>

\* The range loop over entries ends: the loop of select begins.
RangeEnd ==
    /\ pc = "range"
    /\ dirsLeft = {}
    /\ pc' = "select"
    /\ UNCHANGED <<entries, watchedPath, events, started, progress, ticks, flags, base, in,
                   status, out, err, written, stripped, rest, inText, args, snippetVars,
                   callVars>>

\* case event := <-watcher.Events.
ReceiveEvent ==
    /\ pc = "select"
    /\ Len(events) < MaxEvents
    /\ \E name \in EventNames, op \in EventOps :
          /\ events' = Append(events, [name |-> name, op |-> op])
          /\ watchedPath' = IF triggers(op) /\ name \in DOMAIN watchedPath
                            THEN setTimer(name, "running")
                            ELSE watchedPath
    /\ UNCHANGED <<pc, entries, started, progress, ticks, flags, base, in, status, out, err,
                   written, stripped, rest, inText, args, snippetVars, callVars>>

\* case err := <-watcher.Errors: watchAndConvert returns the wrapped error.
WatcherError ==
    /\ pc = "select"
    /\ err' = "Error while watching"
    /\ pc' = "returned"
    /\ UNCHANGED <<entries, watchedPath, events, started, progress, ticks, flags, base, in,
                   status, out, written, stripped, rest, inText, args, snippetVars,
                   callVars>>

\* case <-watchdog.C.
Watchdog ==
    /\ pc = "select"
    /\ ticks < MaxTicks
    /\ ticks' = ticks + 1
    /\ UNCHANGED <<pc, entries, watchedPath, events, started, progress, flags, base, in,
                   status, out, err, written, stripped, rest, inText, args, snippetVars,
                   callVars>>

\* The timer's function starts, were the timer to stay running after it fired.
TimerFiresStaysRunning ==
    /\ pc \in {"select", "returned"}
    /\ \E p \in DOMAIN watchedPath :
          /\ watchedPath[p] = "running"
          /\ started' = Append(started, p)
          /\ progress' = Append(progress, [at |-> "read", seen |-> Len(events)])
    /\ UNCHANGED <<pc, entries, watchedPath, events, ticks, flags, base, in, status, out, err,
                   written, stripped, rest, inText, args, snippetVars, callVars>>

\* The second of a running timer has passed: its function starts converting
\* its path. The statements of the range loop take less than this second.
TimerFires ==
    /\ pc \in {"select", "returned"}
    /\ \E p \in DOMAIN watchedPath :
          /\ watchedPath[p] = "running"
          /\ watchedPath' = setTimer(p, "stopped")
          /\ started' = Append(started, p)
          /\ progress' = Append(progress, [at |-> "read", seen |-> Len(events)])
    /\ UNCHANGED <<pc, entries, events, ticks, flags, base, in, status, out, err,
                   written, stripped, rest, inText, args, snippetVars, callVars>>

\* The function of started[i] has come to at.
setProgress(i, at) == [progress EXCEPT ![i].at = at]

\* convertFile in a timer's function: ioutil.ReadFile gives the source, convert
\* returns the Markdown text.
ConvertFileReads ==
    /\ pc \in {"select", "returned"}
    /\ \E i \in 1..Len(progress) :
          /\ progress[i].at = "read"
          /\ progress' = setProgress(i, "write")
    /\ UNCHANGED <<pc, entries, watchedPath, events, started, ticks, flags, base, in,
                   status, out, err, written, stripped, rest, inText, args, snippetVars,
                   callVars>>

\* convertFile in a timer's function: ioutil.ReadFile fails, and log.Fatal ends
\* the process.
ConvertFileFatal ==
    /\ pc \in {"select", "returned"}
    /\ \E i \in 1..Len(progress) :
          /\ progress[i].at = "read"
          /\ progress' = setProgress(i, "fatal")
    /\ pc' = "exited"
    /\ UNCHANGED <<entries, watchedPath, events, started, ticks, flags, base, in, status,
                   out, err, written, stripped, rest, inText, args, snippetVars, callVars>>

\* convertFile in a timer's function: ioutil.WriteFile writes the file, or it
\* fails and the function logs the error that convertFile returns.
ConvertFileWrites ==
    /\ pc \in {"select", "returned"}
    /\ \E i \in 1..Len(progress), ok \in BOOLEAN :
          /\ progress[i].at = "write"
          /\ progress' = setProgress(i, IF ok THEN "finished" ELSE "logged")
    /\ UNCHANGED <<pc, entries, watchedPath, events, started, ticks, flags, base, in,
                   status, out, err, written, stripped, rest, inText, args, snippetVars,
                   callVars>>

\* main after watchAndConvert has returned the error: it logs it and returns.
MainReturns ==
    /\ pc = "returned"
    /\ pc' = "exited"
    /\ UNCHANGED <<entries, watchedPath, events, started, progress, ticks, flags, base, in,
                   status, out, err, written, stripped, rest, inText, args, snippetVars,
                   callVars>>

WatchNext ==
    \/ AfterFunc
    \/ StopTimer
    \/ RangeEnd
    \/ ReceiveEvent
    \/ WatcherError
    \/ Watchdog
    \/ TimerFires
    \/ ConvertFileReads
    \/ ConvertFileFatal
    \/ ConvertFileWrites
    \/ MainReturns

WatchSpec == WatchInit /\ [][WatchNext]_vars

\* A running timer fires when its second has passed, as long as the process runs.
WatchFairSpec == WatchSpec /\ WF_vars(TimerFires)

-----------------------------------------------------------------------------
(* Properties                                                              *)

\* convert has returned.
Returned == pc \in {"write", "done"}

\* An iteration of the loop is taken: its line and the fragments it appends.
Consumes == pc = "loop" /\ pc' = "loop" /\ Len(in') = Len(in) + 1

NewLine == removeCR(in'[Len(in')])

NewFrags == SubSeq(out', Len(out) + 1, Len(out'))

Appends == Len(out') >= Len(out) /\ SubSeq(out', 1, Len(out)) = out

MarkerNames ==
    {"gotohugo", "summary doc", "intro doc", "source", "ccpair", "comment", "code", "doc"}

Count(frags, f) == Cardinality({i \in 1..Len(frags) : frags[i] = f})

\* The markers open after frags, innermost last, from the markers in stack;
\* <<"#">> when a divEnd does not close the innermost open marker.
RECURSIVE Nesting(_, _)
Nesting(frags, stack) ==
    IF frags = <<>> THEN stack
    ELSE IF Head(frags).k = "div" THEN Nesting(Tail(frags), Append(stack, Head(frags).n))
    ELSE IF Head(frags).k = "divEnd"
    THEN (IF stack # <<>> /\ Last(stack) = Head(frags).n
          THEN Nesting(Tail(frags), Take(stack, Len(stack) - 1))
          ELSE <<"#">>)
    ELSE Nesting(Tail(frags), stack)

\* The lines of the document read so far, and those of a kind.
Lines == [i \in 1..Len(in) |-> removeCR(in[i])]

DelimiterLines == {i \in 1..Len(in) : isFrontmatterDelim(Lines[i])}

DividerLines == {i \in 1..Len(in) : isSummaryDivider(Lines[i])}

\* The status in which the loop takes line i.
RECURSIVE statusAt(_)
statusAt(i) ==
    IF i <= 1 THEN beforefrontmatter
    ELSE iteration(statusAt(i - 1), Lines[i - 1], base, NoFile).status

CodeFenceEnd == <<Lit("\n<BT><BT><BT>\n"), divEnd("code"), divEnd("ccpair")>>

ScenarioA == <<LPlus, LDash, LMore, LStarSlash, LComment, LText>>

\* C1 (as claimed): in the string convert returns, every marker is opened as
\* often as it is closed.
C1_Balanced ==
    Returned => \A n \in MarkerNames : Count(out, div(n)) = Count(out, divEnd(n))

\* C1, a conventional document that shows it: scenario A ends in code, and its
\* source marker is opened and never closed.
C1_SourceLeftOpen ==
    /\ pc = "done"
    /\ in = ScenarioA
    /\ Count(out, div("source")) = 1
    /\ Count(out, divEnd("source")) = 0

\* C2 (as claimed): every divEnd that convert emits, the final one of the
\* gotohugo wrapper included, closes the marker opened last and still open.
C2_LIFO == Nesting(out, <<>>) # <<"#">>

\* C2, a conventional document that shows it: for scenario A the gotohugo
\* wrapper is closed while the source marker is the innermost open one.
C2_WrapperClosedOverSource ==
    /\ pc = "done"
    /\ in = ScenarioA
    /\ Nesting(Take(out, Len(out) - 1), <<>>) = <<"gotohugo", "source">>
    /\ Last(out) = divEnd("gotohugo")

\* C3: when the input is exhausted, convert appends the closing fence, the code
\* close and the ccpair close exactly if the status is code, and then, in every
\* case, the close of the gotohugo wrapper, and nothing else.
C3_EndOfDocument ==
    [][(pc = "loop" /\ pc' = "write") =>
          /\ status' = status
          /\ out' = out \o (IF status = code THEN CodeFenceEnd ELSE <<>>)
                        \o <<divEnd("gotohugo")>>]_vars

\* C3, its case: scenario A (front matter, divider, a comment and a code line)
\* has been converted and the output ends with fence, code, ccpair, gotohugo.
C3_Witness ==
    /\ pc = "done"
    /\ in = ScenarioA
    /\ status = code
    /\ SubSeq(out, Len(out) - 3, Len(out)) = CodeFenceEnd \o <<divEnd("gotohugo")>>

\* C4 (as claimed): a document with fewer than two front matter delimiter lines
\* gives only the closing marker.
C4_FewerThanTwo ==
    (Returned /\ Cardinality(DelimiterLines) < 2) => out = <<divEnd("gotohugo")>>

\* C4 (amended): a document with no front matter delimiter line gives only the
\* closing marker; with exactly one, the delimiter line and every line after it
\* are in the output, verbatim, before the closing marker.
C4_NoDelimiter ==
    /\ (Returned /\ DelimiterLines = {}) => out = <<divEnd("gotohugo")>>
    /\ (Returned /\ Cardinality(DelimiterLines) = 1) =>
          \E d \in DelimiterLines :
             out = [i \in 1..(Len(in) - d + 1) |-> TextLine(Lines[d + i - 1])]
                      \o <<divEnd("gotohugo")>>

C4_Witness ==
    /\ pc = "done"
    /\ Len(in) >= 2
    /\ DelimiterLines = {}
    /\ out = <<divEnd("gotohugo")>>

\* C5 (as claimed): when the source file holds no front matter, convertFile
\* reports a failure and writes no Markdown file.
C5_FailsWithoutFrontMatter ==
    (pc = "done" /\ DelimiterLines = {}) => (err # "nil" /\ ~written)

\* C6: with exactly one summary divider line, after the second front matter
\* delimiter line, the output holds one announcement marker and one intro doc
\* open marker, and they directly follow the divider line as it is emitted
\* ("\n" + line + "\n\n").
C6_Announcement ==
    \A k \in DividerLines :
        (/\ DividerLines = {k}
         /\ Cardinality({d \in DelimiterLines : d < k}) >= 2)
        => /\ Count(out, Lit("{{< announcement >}}\n")) = 1
           /\ Count(out, div("intro doc")) = 1
           /\ \E p \in 1..(Len(out) - 2) :
                 /\ out[p] = DividerLine(Lines[k])
                 /\ out[p + 1] = Lit("{{< announcement >}}\n")
                 /\ out[p + 2] = div("intro doc")

C6_Witness ==
    /\ pc = "done"
    /\ DividerLines = {3}
    /\ DelimiterLines = {1, 2}
    /\ Len(in) >= 6
    /\ Count(out, Lit("{{< announcement >}}\n")) = 1

\* The line taken carries an animation reference that is not preformatted, in a
\* status in which references are looked for.
HypeCase ==
    /\ Consumes
    /\ status \in {doc, comment, intro}
    /\ ~isPreformatted(NewLine)
    /\ hypeTag(NewLine) # <<>>

Noscript ==
    "<noscript class=\"nohype\"><em>Please enable JavaScript to view the animation.</em></noscript>\n"

\* C7: in status doc, comment or intro, a line with an animation reference that
\* is not preformatted adds exactly one string to the output, the snippet with
\* the noscript notice after it, and leaves the status as it is, whatever else
\* the line matches.
C7_HypeOnly ==
    [][HypeCase =>
          /\ status' = status
          /\ Appends
          /\ Len(NewFrags) = 1
          /\ NewFrags[1].k = "hype"
          /\ NewFrags[1].n = Noscript]_vars

\* C7, its cases: in intro a reference on a line that also matches the block
\* comment end, and in comment a reference on a line that is no line comment,
\* have each added the snippet and nothing else, and the status is comment.
C7_Witness ==
    /\ pc = "loop"
    /\ status = comment
    /\ Len(in) = 7
    /\ in[4] = LHypeEnd
    /\ in[7] = LHype
    /\ isCommentEnd(LHypeEnd)
    /\ ~isLineComment(LHype)
    /\ \E p \in 1..Len(out) : out[p] = div("intro doc") /\ out[p + 1].k = "hype"
                                 /\ out[p + 2] = divEnd("intro doc")
    /\ out[Len(out) - 1] = TextLine(<<"x">>)
    /\ Last(out).k = "hype"

\* The path of the file that replaceHypeTag has getHTMLSnippet read.
AttemptedPath(line) ==
    JoinText(Join(<<flags.outDir, flags.mediaDir, base>>),
             hypeTag(extendImagePath(line, base))[2])

PathlessTag(line) ==
    \E p \in 1..Len(line) :
        /\ HasPrefixAt(line, p, <<"HYPE", "[">>)
        /\ HasPrefixAt(line, IndexFrom(line, p + 2, "]"), <<"]", "(", ")">>)
        /\ IndexFrom(line, p + 2, "]") >= p + 3

\* C9 (as claimed): when a line with an animation tag without a path has been
\* taken in a status in which references are looked for, the conversion ends in
\* a failure reported to the caller, not in a written document.
C9_HardError ==
    (/\ pc = "done"
     /\ \E i \in 1..Len(in) : PathlessTag(Lines[i]) /\ statusAt(i) \in {doc, comment, intro})
    => (err # "nil" /\ ~written)

\* C9 (amended): a line with an animation tag without a path, and no other
\* tag, is not taken for an animation reference: the loop handles it as any
\* other line of the status (after the image paths are extended), adds no error
\* text and no snippet, and convert returns its document.
C9_PathlessIsText ==
    [][(/\ Consumes
        /\ status \in {doc, comment, intro}
        /\ PathlessTag(NewLine)
        /\ Cardinality({p \in 1..Len(NewLine) : NewLine[p] = "HYPE"}) = 1)
       => /\ Appends
          /\ NewFrags = statusBlocks(status, extendImagePath(NewLine, base)).emit
          /\ status' = statusBlocks(status, extendImagePath(NewLine, base)).status
          /\ \A i \in 1..Len(NewFrags) : NewFrags[i].k \notin {"hype", "error"}
          /\ err' = "nil"]_vars

\* C9, its case: HYPE[x]() was taken in intro, is in the output as a text line,
\* and the document has been written with no error.
C9_Witness ==
    /\ pc = "done"
    /\ written
    /\ err = "nil"
    /\ Len(in) >= 4
    /\ in[4] = LHypeNoPath
    /\ statusAt(4) = intro
    /\ \E p \in 1..Len(out) : out[p] = TextLine(LHypeNoPath)

\* C10 (as claimed): for a line that matches the line-comment pattern, stripping
\* the delimiter from the stripped text gives the stripped text again.
C10_Idempotent ==
    (Len(stripped) >= 3 /\ isLineComment(stripped[1])) => stripped[3] = stripped[2]

\* C10 (amended): for a line that matches the line-comment pattern, stripping
\* the delimiter from the stripped text gives the stripped text again exactly
\* when the stripped text does not itself match the pattern; when it does, the
\* second stripping removes a further delimiter.
C10_FixedPoint ==
    (Len(stripped) >= 3 /\ isLineComment(stripped[1]))
    => /\ (stripped[3] = stripped[2]) = ~isLineComment(stripped[2])
       /\ HasSuffix(stripped[1], stripped[2])
       /\ \E w \in 0..Len(stripped[1]) :
             /\ \A i \in 1..w : stripped[1][i] \in WhiteSpace
             /\ HasPrefixAt(stripped[1], w + 1, <<"/", "/">>)
             /\ Len(stripped[1]) - Len(stripped[2]) =
                   (IF w + 3 <= Len(stripped[1]) /\ stripped[1][w + 3] \in WhiteSpace
                    THEN w + 3 ELSE w + 2)

\* C10, its cases: "// x" stripped twice is "x" both times.
C10_Witness ==
    /\ stripped = << <<"/", "/", " ", "x">>, <<"x">>, <<"x">> >>

\* The iteration of LineSpec is taken.
ConvertsLine == pc = "line" /\ pc' = "lined"

\* The line has an image tag or a Hype tag, whether preformatted or not.
HasTag(line) ==
    \/ \E p \in 1..Len(line) : imageTagAt(line, p) # <<>>
    \/ \E p \in 1..Len(line) : hypeTagAt(line, p) # <<>>

\* C11: in status intro, doc or comment, a line with a backtick and an image
\* or Hype tag adds no snippet to the output, and the one line of text it adds
\* is the line itself, or in a comment the line less its comment delimiter, so
\* that the tag stays as written; no text is added only where the status drops
\* the line (the end of a block comment in intro and doc).
C11_Preformatted ==
    [][(/\ ConvertsLine
        /\ status \in {intro, doc, comment}
        /\ Contains(NewLine, "BT")
        /\ HasTag(NewLine))
       => /\ Appends
          /\ \A i \in 1..Len(NewFrags) : NewFrags[i].k \in {"line", "div", "divEnd", "lit"}
          /\ Cardinality({i \in 1..Len(NewFrags) : NewFrags[i].k = "line"})
                = (IF status \in {intro, doc} /\ isCommentEnd(NewLine) THEN 0 ELSE 1)
          /\ \A i \in 1..Len(NewFrags) :
                NewFrags[i].k = "line" =>
                    NewFrags[i].t = (IF status = comment THEN stripComment(NewLine)
                                     ELSE NewLine)]_vars

\* C11, its case: in doc the line  <BT>![a](a p "T")<BT>  has been added as it is.
C11_Witness ==
    /\ pc = "lined"
    /\ status = doc
    /\ flags.publicMediaDir = <<"media">>
    /\ Last(in) = <<"BT">> \o Tag(<<"!">>, 0, <<"a", " ", "p">>, <<" ", "\"", "T", "\"">>)
                      \o <<"BT">>
    /\ Last(out) = TextLine(Last(in))

\* The line  pre ![a]( path title) post  with text prefix put before its path.
Rewritten(pre, lead, prefix, path, title, post) ==
    pre \o <<"!", "[", "a", "]", "(">> \o Spaces(lead) \o prefix \o path \o title
        \o <<")">> \o post

\* The iteration adds text as the one line of text it adds, where the status
\* adds the line at all: in comment less its comment delimiter, and not at the
\* end of a block comment in intro and doc.
AddsText(text) ==
    /\ Appends
    /\ \A i \in 1..Len(NewFrags) : NewFrags[i].k \in {"line", "div", "divEnd", "lit"}
    /\ Cardinality({i \in 1..Len(NewFrags) : NewFrags[i].k = "line"})
          = (IF status \in {intro, doc} /\ isCommentEnd(NewLine) THEN 0 ELSE 1)
    /\ \A i \in 1..Len(NewFrags) :
          NewFrags[i].k = "line" =>
              NewFrags[i].t = (IF status = comment THEN stripComment(text) ELSE text)

\* C12: for a line with an image tag that is not preformatted, in particular a
\* tag with a space in its path and a title, the text added is the line with
\* one insertion, the path of the media directory of the document, right before
\* the path of the tag; the alternative text, the path, the title and the rest
\* of the line are as they were.
C12_OnlyPath ==
    [][\A pre \in TagPrefixes, lead \in 0..MaxLead, path \in TagPaths,
          title \in TagTitles, post \in TagSuffixes :
          (/\ ConvertsLine
           /\ Last(in') = Rewritten(pre, lead, <<>>, path, title, post)
           /\ status \in {intro, doc, comment}
           /\ ~isPreformatted(NewLine))
          => AddsText(Rewritten(pre, lead,
                                <<"/">> \o PathString(Join(<<flags.publicMediaDir, base>>))
                                    \o <<"/">>,
                                path, title, post))]_vars

\* C12, its case: in intro the line  ![a]( a p "T") x  has been added with
\* /media/b/ before  a p "T" .
C12_Witness ==
    /\ pc = "lined"
    /\ status = intro
    /\ Last(in) = Rewritten(<<>>, 1, <<>>, <<"a", " ", "p">>, <<" ", "\"", "T", "\"">>,
                            <<" ", "x">>)
    /\ Last(out) = TextLine(<<"!", "[", "a", "]", "(", " ", "/", "media", "/", "b", "/",
                              "a", " ", "p", " ", "\"", "T", "\"", ")", " ", "x">>)

StartLines == {i \in 1..Len(hypeHTML) : Contains(hypeHTML[i], "START")}

EndLines == {i \in 1..Len(hypeHTML) : Contains(hypeHTML[i], "END")}

\* The first line with the start marker, or 0.
FirstStart == MinOrZero(StartLines)

\* The path put before the path of an image tag or of a src attribute, as text.
MediaPrefix == <<"/">> \o PathString(Join(<<flags.publicMediaDir, base>>)) \o <<"/">>

\* The text without its carriage returns.
CRFree(s) == SeqFilter(s, {c \in {s[i] : i \in 1..Len(s)} : c # "\r"})

\* A line without the tabs it begins with and, if trailing, those it ends with.
CutTabs(line, trailing) ==
    SubSeq(line, Cardinality({i \in 1..Len(line) : \A j \in 1..i : line[j] = "\t"}) + 1,
           IF trailing
           THEN Len(line) - Cardinality({i \in 1..Len(line) : \A j \in i..Len(line) : line[j] = "\t"})
           ELSE Len(line))

\* A line with the directory of the media put after  src="  when the line has
\* .hyperesources/ after it.
SrcPrefixed(line) ==
    IF \E p, r \in 1..Len(line) : p < r /\ line[p] = "SRC" /\ line[r] = "HR"
    THEN Take(line, IndexFrom(line, 1, "SRC")) \o MediaPrefix
            \o Drop(line, IndexFrom(line, 1, "SRC"))
    ELSE line

\* A line of the file as getHTMLSnippet keeps it: the carriage returns gone,
\* the tabs cut at both ends (trailing) or at the beginning only.
KeptLine(line, trailing) == SrcPrefixed(CutTabs(CRFree(line), trailing))

\* The lines of the file from line i to before line e, as they are kept.
RECURSIVE FileLines(_, _)
FileLines(i, e) ==
    IF i >= e THEN <<>> ELSE <<KeptLine(hypeHTML[i], TRUE)>> \o FileLines(i + 1, e)

\* The same without the lines that have the start marker.
RECURSIVE UnmarkedLines(_, _)
UnmarkedLines(i, e) ==
    IF i >= e THEN <<>>
    ELSE (IF i \in StartLines THEN <<>> ELSE <<KeptLine(hypeHTML[i], TRUE)>>)
            \o UnmarkedLines(i + 1, e)

\* What getHTMLSnippet has kept: its lines without the "\n" added at the end.
Kept == Take(htmlSnippet.lines, Len(htmlSnippet.lines) - 1)

\* C14 (as claimed): for a file with a start marker and an end marker after it,
\* the lines kept are the lines after the first line with the start marker and
\* before the next line with the end marker.
C14_Between ==
    (/\ pc = "snippetRead"
     /\ FirstStart # 0
     /\ \E e \in EndLines : e > FirstStart)
    => Kept = FileLines(FirstStart + 1,
                        MinOrZero({e \in EndLines : e > FirstStart}))

\* C14 (amended): nothing is kept of a file without a start marker.  Otherwise
\* the region kept begins after the first line with the start marker and ends
\* before the next line that has the end marker and no start marker, or with
\* the file when there is no such line; the lines kept are those of the region
\* without its lines that have the start marker.  A line with the end marker
\* before the first start marker is passed over, and nothing after the end of
\* the region is kept.
C14_Region ==
    pc = "snippetRead"
    => /\ htmlSnippet.warning = <<>>
       /\ Last(htmlSnippet.lines) = <<>>
       /\ Kept =
            IF FirstStart = 0 THEN <<>>
            ELSE IF \E e \in EndLines \ StartLines : e > FirstStart
            THEN UnmarkedLines(FirstStart + 1,
                               MinOrZero({e \in EndLines \ StartLines : e > FirstStart}))
            ELSE UnmarkedLines(FirstStart + 1, Len(hypeHTML) + 1)

\* C14, its cases: of the file  END, START, x, END  with the end marker first
\* only x is kept, and of  START, x, END, y  nothing after the end marker.
C14_Witness ==
    /\ pc = "snippetRead"
    /\ \/ hypeHTML = << <<"END">>, <<"START">>, <<"x">>, <<"END">> >>
       \/ hypeHTML = << <<"START">>, <<"x">>, <<"END">>, <<"y">> >>
    /\ Kept = << <<"x">> >>

\* The iteration of the loop on the next line of the text is defined: it has a
\* next status and a sequence of fragments to write.
IterationDefined ==
    /\ iteration(status, removeCR(Head(rest)), base, NoFile).status \in beforefrontmatter..none
    /\ DOMAIN iteration(status, removeCR(Head(rest)), base, NoFile).emit
          = 1..Len(iteration(status, removeCR(Head(rest)), base, NoFile).emit)

\* C15: for every text, the empty one and those against every convention among
\* them, convert returns: as long as it has not returned it has a step to take
\* (the iteration on the next line is defined for every status and line), every
\* iteration of the loop leaves fewer lines to take, and the end of the loop
\* returns; what it returns is a string that ends with the gotohugo divEnd, and
\* there is no error result.
C15_Total ==
    /\ [](pc = "loop" /\ rest # <<>> => IterationDefined)
    /\ [](pc \in {"convert", "loop", "returned"})
    /\ [][pc = "loop" =>
          /\ (pc' = "loop" => Len(rest') < Len(rest))
          /\ (pc' # "loop" => pc' = "returned" /\ rest = <<>>)]_vars
    /\ [](pc = "returned" =>
             /\ rest = <<>>
             /\ err = "nil"
             /\ Len(out) >= 1
             /\ Last(out) = divEnd("gotohugo")
             /\ \A i \in 1..Len(out) :
                   out[i].k \in {"line", "divider", "lit", "div", "divEnd", "hype", "error"})

\* C15, its cases: convert has returned for the empty text, and for a text
\* that has the summary divider, a Hype tag and the end of a block comment
\* where no front matter has begun.
C15_Witness ==
    /\ pc = "returned"
    /\ \/ in = <<LEmpty>>
       \/ in = <<LMore, LHype, LStarSlash, LPlus>>

\* Call i has returned.
callReturned(i) == calls[i].pc = "returned"

\* Both calls have returned, and they were given the same text and base name.
SameInput ==
    /\ callReturned(1) /\ callReturned(2)
    /\ calls[1].text = calls[2].text
    /\ calls[1].base = calls[2].base

Alone(i) ==
    convert(calls[i].text, calls[i].base,
            IF calls[i].reads = <<>> THEN NoFile ELSE calls[i].reads[1])

\* C17: of two calls of convert on different texts, whose iterations
\* interleave in any order, each returns what it returns alone.
C17_Alone ==
    calls[1].text # calls[2].text =>
        \A i \in Callers : callReturned(i) => calls[i].out = Alone(i)

\* C17, its case: the call on the text with the Hype tag has returned while
\* the call on another text is in the middle of its loop.
C17_Witness ==
    /\ callReturned(1)
    /\ calls[1].text = <<LPlus, LDash, LMore, LHype>>
    /\ calls[1].reads = <<HypeFile>>
    /\ calls[2].text = <<LPlus, LDash, LMore, LImage, LStarSlash, LComment>>
    /\ calls[2].pc = "loop"
    /\ Len(calls[2].rest) = 3
    /\ calls[1].out = Alone(1)

\* The directories of a Hugo root.
HugoDirs(root) ==
    [outDir |-> root, postDir |-> <<"content", "post">>,
     mediaDir |-> <<"static", "media">>, publicMediaDir |-> <<"media">>]

\* C18: after main has set the directories: with -hugo set, they are those of
\* the Hugo root of -hugo, whatever $HUGODIR and -out are; with only $HUGODIR
\* set, those of the Hugo root of $HUGODIR, whatever -out is; with neither, the
\* output directory is the directory of -out, out when -out is not given, and
\* there are no sub-directories.
C18_Precedence ==
    pc = "dirsSet" =>
        /\ args.hugo # <<>> => flags = HugoDirs(args.hugo)
        /\ args.hugo = <<>> /\ args.env # <<>> => flags = HugoDirs(args.env)
        /\ args.hugo = <<>> /\ args.env = <<>> =>
              /\ flags.outDir = (IF args.out = NotGiven THEN <<"out">> ELSE args.out.value)
              /\ flags.postDir = <<>>
              /\ flags.mediaDir = <<>>
              /\ flags.publicMediaDir = <<>>

\* C18, its case: -hugo, $HUGODIR and -out are all set, to different
\* directories, and the output directory is that of -hugo.
C18_Witness ==
    /\ pc = "dirsSet"
    /\ args = [hugo |-> <<"h">>, env |-> <<"e">>, out |-> Given(<<"o">>)]
    /\ flags.outDir = <<"h">>
    /\ flags.postDir = <<"content", "post">>

\* The conversions of path p started so far.
Starts(p) == {i \in 1..Len(started) : started[i] = p}

\* The events of Create or Write received so far whose name is exactly p.
Triggers(p) ==
    {i \in 1..Len(events) :
        events[i].name = p /\ ("Create" \in events[i].op \/ "Write" \in events[i].op)}

\* The paths name/name.go of the directories among the entries read at start-up.
WatchedAtStartUp == {fpath(entries[i].name) : i \in {j \in 1..Len(entries) : entries[j].dir}}

C20_FrontMatter ==
    [][Consumes /\ status \in {beforefrontmatter, frontmatter} =>
          /\ Appends
          /\ status = beforefrontmatter => out = <<>>
          /\ status = beforefrontmatter /\ ~isFrontmatterDelim(NewLine) =>
                NewFrags = <<>> /\ status' = beforefrontmatter
          /\ status = beforefrontmatter /\ isFrontmatterDelim(NewLine) =>
                NewFrags = <<TextLine(NewLine)>> /\ status' = frontmatter
          /\ status = frontmatter /\ ~isFrontmatterDelim(NewLine) =>
                NewFrags = <<TextLine(NewLine)>> /\ status' = frontmatter
          /\ status = frontmatter /\ isFrontmatterDelim(NewLine) =>
                /\ NewFrags = <<TextLine(NewLine), div("gotohugo"), div("summary doc")>>
                /\ status' = summary]_vars

\* C20, its case: a line before the front matter, the first delimiter, a line
\* of front matter and the second delimiter have been taken.
C20_Witness ==
    /\ pc = "loop"
    /\ in = <<LSlashStar, LPlus, LText, LDash>>
    /\ status = summary
    /\ out = <<TextLine(LPlus), TextLine(LText), TextLine(LDash),
               div("gotohugo"), div("summary doc")>>

\* The markers that are open in status st, outermost first.
OpenIn(st) ==
    CASE st = beforefrontmatter -> <<>>
      [] st = frontmatter -> <<>>
      [] st = summary -> <<"gotohugo", "summary doc">>
      [] st = intro -> <<"gotohugo", "intro doc">>
      [] st = none -> <<"gotohugo">>
      [] st = comment -> <<"gotohugo", "source", "ccpair", "comment">>
      [] st = code -> <<"gotohugo", "source", "ccpair", "code">>
      [] st = doc -> <<"gotohugo", "doc">>

\* C21: while convert takes lines, the markers opened and not yet closed are
\* those of its status, in that order, and every divEnd written so far closed
\* the marker that was the innermost open one.
C21_OpenMarkers == pc = "loop" => Nesting(out, <<>>) = OpenIn(status)

\* C21, its case: after front matter, summary, intro, a comment, code, a block
\* comment and its end, the status is none again and only gotohugo is open.
C21_Witness ==
    /\ pc = "loop"
    /\ in = <<LPlus, LDash, LMore, LStarSlash, LComment, LText, LDocStart, LStarSlash>>
    /\ status = none
    /\ Count(out, div("source")) = 1
    /\ Count(out, divEnd("source")) = 1
    /\ Nesting(out, <<>>) = <<"gotohugo">>

\* The code fences: the opening one, the closing one within the text and the
\* closing one at the end of the text.
FenceOpen == Lit("\n<BT><BT><BT>go\n")

FenceClose == Lit("<BT><BT><BT>\n\n")

FenceCloseAtEnd == Lit("\n<BT><BT><BT>\n")

OpenedFences(frags) == Count(frags, FenceOpen)

ClosedFences(frags) == Count(frags, FenceClose) + Count(frags, FenceCloseAtEnd)

\* C22: an iteration writes an opening fence exactly when it goes from comment
\* to code, one and no more, and a closing fence exactly when it leaves code,
\* one and no more; the end of the text writes a closing fence exactly in
\* status code. So, while lines are taken, one fence more is opened than closed
\* in status code and as many otherwise, and in what convert returns as many
\* fences are closed as opened.
C22_Fences ==
    /\ [][Consumes =>
            /\ OpenedFences(NewFrags) = (IF status = comment /\ status' = code THEN 1 ELSE 0)
            /\ ClosedFences(NewFrags) = (IF status = code /\ status' # code THEN 1 ELSE 0)]_vars
    /\ [][pc = "loop" /\ pc' = "write" =>
            /\ OpenedFences(out') = OpenedFences(out)
            /\ ClosedFences(out') = ClosedFences(out) + (IF status = code THEN 1 ELSE 0)]_vars
    /\ [](pc = "loop" =>
            OpenedFences(out) = ClosedFences(out) + (IF status = code THEN 1 ELSE 0))
    /\ [](Returned => OpenedFences(out) = ClosedFences(out))

\* C22, its case: code was left for a comment and then by the end of the text,
\* and two fences were opened and two closed, one of them at the end.
C22_Witness ==
    /\ Returned
    /\ in = <<LPlus, LDash, LMore, LStarSlash, LComment, LText, LComment, LText>>
    /\ status = code
    /\ OpenedFences(out) = 2
    /\ Count(out, FenceClose) = 1
    /\ Count(out, FenceCloseAtEnd) = 1

\* C23: on a line comment, an iteration in status none writes the div of
\* source, of ccpair and of comment and the line with its comment delimiter
\* stripped; an iteration in status code writes the closing fence, the divEnd
\* of code and of ccpair, the div of ccpair and of comment and the stripped
\* line, and no div of source; after both the status is comment.
C23_CommentEntry ==
    [][Consumes /\ status \in {none, code} /\ isLineComment(NewLine) =>
          /\ status' = comment
          /\ Appends
          /\ status = none =>
                NewFrags = <<div("source"), div("ccpair"), div("comment"),
                             TextLine(stripComment(NewLine))>>
          /\ status = code =>
                NewFrags = <<FenceClose, divEnd("code"), divEnd("ccpair"), div("ccpair"),
                             div("comment"), TextLine(stripComment(NewLine))>>]_vars

\* C23, its case: a line comment was taken in status none and, after a line of
\* code, another in status code: source was opened once, ccpair twice, and the
\* last line written is the comment without its delimiter.
C23_Witness ==
    /\ pc = "loop"
    /\ in = <<LPlus, LDash, LMore, LStarSlash, LComment, LText, LComment>>
    /\ status = comment
    /\ Count(out, div("source")) = 1
    /\ Count(out, div("ccpair")) = 2
    /\ Count(out, div("comment")) = 2
    /\ Last(out) = TextLine(<<"x">>)

\* The line carries an animation reference that is replaced.
LiveHype(line) == hypeTag(line) # <<>> /\ ~isPreformatted(line)

\* What an iteration in status comment adds for a line without a live animation
\* reference, text being what it writes of a line that is no line comment.
CommentStep(text) ==
    /\ Appends
    /\ isLineComment(NewLine) =>
          /\ status' = comment
          /\ NewFrags = <<TextLine(stripComment(extendImagePath(NewLine, base)))>>
    /\ ~isLineComment(NewLine) =>
          /\ status' = code
          /\ NewFrags = <<divEnd("comment"), div("code"), FenceOpen, TextLine(text)>>

\* C24 as claimed: in status comment, a line that is no line comment and has
\* no live animation reference closes comment, opens code and the fence, and is
\* written as it is, with status code after it.
C24_Verbatim ==
    [][ConvertsLine /\ status = comment /\ ~LiveHype(NewLine) => CommentStep(NewLine)]_vars

\* C24: in status comment, a line that is no line comment and has no live
\* animation reference, an empty line and the start of a block comment among
\* them, closes comment, opens code and the fence, and is written with the
\* paths of its image tags extended (as it is when it has none, or is
\* preformatted), with status code after it; a line comment is written without
\* its delimiter and the status stays comment.
C24_FirstCodeLine ==
    [][ConvertsLine /\ status = comment /\ ~LiveHype(NewLine) =>
          CommentStep(extendImagePath(NewLine, base))]_vars

\* C24, its case: after a line comment the line  ![a](p)  was taken, with -hugo:
\* the fence is open, the status is code and the line written is ![a](/media/b/p).
C24_Witness ==
    /\ pc = "lined"
    /\ status = code
    /\ flags.publicMediaDir = <<"media">>
    /\ Len(in) = 6
    /\ in[5] = LComment
    /\ in[6] = Rewritten(<<>>, 0, <<>>, <<"p">>, <<>>, <<>>)
    /\ SubSeq(out, Len(out) - 3, Len(out))
          = <<divEnd("comment"), div("code"), FenceOpen,
              TextLine(Rewritten(<<>>, 0, <<"/", "media", "/", "b", "/">>, <<"p">>, <<>>, <<>>))>>

\* The text after the delimiter of a block comment start, "/* x" being the line.
DocStartText == <<"x">>

\* C25: in status code, on the start of a block comment an iteration writes the
\* closing fence, the divEnd of code, of ccpair and of source, the div of doc
\* and the line without the delimiter of the block comment start, and the
\* status is doc; a line that is neither a line comment nor the start of a
\* block comment is written as it is and the status stays code.
C25_Code ==
    [][Consumes /\ status = code /\ ~isLineComment(NewLine) =>
          /\ Appends
          /\ isCommentStart(NewLine) =>
                /\ status' = doc
                /\ NewFrags = <<FenceClose, divEnd("code"), divEnd("ccpair"), divEnd("source"),
                               div("doc"), TextLine(stripCommentStart(NewLine))>>
                /\ NewLine = LDocStart => Last(NewFrags) = TextLine(DocStartText)
          /\ ~isCommentStart(NewLine) =>
                /\ status' = code
                /\ NewFrags = <<TextLine(NewLine)>>]_vars

\* C25, its case: after a line of code and a line with a front matter delimiter
\* as code, the line  /* x  was taken: x is the last line written, in doc.
C25_Witness ==
    /\ pc = "loop"
    /\ in = <<LPlus, LDash, LMore, LStarSlash, LComment, LText, LDash, LDocStart>>
    /\ status = doc
    /\ SubSeq(out, Len(out) - 6, Len(out))
          = <<TextLine(LDash), FenceClose, divEnd("code"), divEnd("ccpair"), divEnd("source"),
              div("doc"), TextLine(DocStartText)>>

C27_ProseFromNeutral ==
    [][Consumes /\ status = none /\ isCommentStart(NewLine) => status' = doc]_vars

\* C27, what the code does: after the end of the intro the block comment
\* /* x, x  was taken in status none; no doc section was opened and its lines
\* were written as they are.
C27_Witness ==
    /\ pc = "loop"
    /\ in = <<LPlus, LDash, LMore, LStarSlash, LDocStart, LText>>
    /\ status = none
    /\ Count(out, div("doc")) = 0
    /\ SubSeq(out, Len(out) - 1, Len(out)) = <<TextLine(LDocStart), TextLine(LText)>>

\* The marker of the section of status intro or doc.
SectionOf(st) == IF st = intro THEN "intro doc" ELSE "doc"

\* C28 as claimed: in status intro and doc, a line that matches the end of a
\* block comment adds the divEnd of the section and nothing else, and the
\* status is none after it.
C28_OnlyClose ==
    [][Consumes /\ status \in {intro, doc} /\ isCommentEnd(NewLine) =>
          /\ status' = none
          /\ NewFrags = <<divEnd(SectionOf(status))>>]_vars

\* C28: in status intro and doc, a line without a live animation reference that
\* matches the end of a block comment adds the divEnd of the section and
\* nothing else, no text of the line, and the status is none after it; every
\* other line without a live animation reference is written with the paths of
\* its image tags extended, and the status is kept. (A line with a live
\* animation reference is replaced by the snippet, whatever else it matches.)
C28_CommentEnd ==
    [][Consumes /\ status \in {intro, doc} /\ ~LiveHype(NewLine) =>
          /\ Appends
          /\ isCommentEnd(NewLine) =>
                /\ status' = none
                /\ NewFrags = <<divEnd(SectionOf(status))>>
          /\ ~isCommentEnd(NewLine) =>
                /\ status' = status
                /\ NewFrags = <<TextLine(extendImagePath(NewLine, base))>>]_vars

\* C28, its case: in status doc the line  x */  was taken: the divEnd of doc
\* follows the line written before it, and the status is none.
C28_Witness ==
    /\ pc = "loop"
    /\ in = <<LPlus, LDash, LMore, LStarSlash, LComment, LText, LDocStart, LTextEnd>>
    /\ status = none
    /\ SubSeq(out, Len(out) - 2, Len(out))
          = <<div("doc"), TextLine(DocStartText), divEnd("doc")>>

HasImageTag(line) == \E p \in 1..Len(line) : imageTagAt(line, p) # <<>>

HasMediaPrefix(text) == \E p \in 1..Len(text) : HasPrefixAt(text, p, MediaPrefix)

\* C29 as claimed: a line that is not preformatted and is written into an intro,
\* comment or doc section (the status after the iteration is intro, comment or
\* doc; so also the line comment that opens a comment and the start of a block
\* comment that opens a doc section) has the path of its image tag extended,
\* and its live animation reference replaced by the snippet.
C29_Everywhere ==
    [][ConvertsLine /\ status' \in {intro, comment, doc} /\ ~isPreformatted(NewLine) =>
          /\ HasImageTag(NewLine) =>
                \A i \in 1..Len(NewFrags) :
                    NewFrags[i].k = "line" => HasMediaPrefix(NewFrags[i].t)
          /\ LiveHype(NewLine) =>
                \E i \in 1..Len(NewFrags) : NewFrags[i].k = "hype"]_vars

\* C29, what the code does: in status none the line comment  // ![a](p)  opened
\* a comment, and the line written inside it is  ![a](p) , its path as it was.
C29_Witness ==
    /\ pc = "lined"
    /\ status = comment
    /\ Len(in) = 5
    /\ in[4] = LStarSlash
    /\ in[5] = Rewritten(<<"/", "/", " ">>, 0, <<>>, <<"p">>, <<>>, <<>>)
    /\ SubSeq(out, Len(out) - 1, Len(out))
          = <<div("comment"), TextLine(Rewritten(<<>>, 0, <<>>, <<"p">>, <<>>, <<>>))>>

\* The phase of a status: the four phases of the head of the document in their
\* order, and one phase for the body (none, comment, code, doc).
Phase(st) == IF st \in {beforefrontmatter, frontmatter, summary, intro} THEN st ELSE 4

\* C30: the phases go forward only. The conversion starts in beforefrontmatter,
\* no step of the conversion moves the status
\* to an earlier phase, a step moves it by one phase at most, and once the
\* status has left intro it stays in none, comment, code or doc, whatever
\* front matter delimiter or summary divider comes later.
C30_Forward ==
    /\ [](in = <<>> => status = beforefrontmatter)
    /\ [][/\ Phase(status') >= Phase(status)
          /\ Phase(status') <= Phase(status) + 1]_vars
    /\ [][Consumes /\ Phase(status) = 4
              /\ (isFrontmatterDelim(NewLine) \/ isSummaryDivider(NewLine)) =>
          status' \in {none, comment, code, doc}]_vars

\* C30: after the intro a summary divider was read in status none and a front
\* matter delimiter in status code, and the status is still code.
C30_Witness ==
    /\ pc = "loop"
    /\ in = <<LPlus, LDash, LMore, LStarSlash, LMore, LComment, LText, LDash>>
    /\ status = code

Announcement == Lit("{{< announcement >}}\n")

\* What the summary divider sets off, in the fragments frags.
Announced(frags) ==
    Count(frags, Announcement) + Count(frags, divEnd("summary doc"))
        + Count(frags, div("intro doc"))
        + Cardinality({i \in 1..Len(frags) : frags[i].k = "divider"})

\* C31: the announcement, the divEnd of the summary and the div of the intro are
\* each written once at most; an iteration writes them only for a summary
\* divider taken in status summary, when none of them was written before; and a
\* summary divider taken in a later status is written as a line of that status:
\* as text in intro, none, code and doc, which are kept, and as the first line
\* of the code after a comment.
C31_Once ==
    /\ [](/\ Count(out, Announcement) <= 1
          /\ Count(out, divEnd("summary doc")) <= 1
          /\ Count(out, div("intro doc")) <= 1)
    /\ [][Consumes /\ Announced(NewFrags) > 0 =>
              /\ status = summary
              /\ isSummaryDivider(NewLine)
              /\ Announced(out) = 0]_vars
    /\ [][Consumes /\ isSummaryDivider(NewLine) /\ status \in {intro, none, code, doc} =>
              /\ NewFrags = <<TextLine(NewLine)>>
              /\ status' = status]_vars
    /\ [][Consumes /\ isSummaryDivider(NewLine) /\ status = comment =>
              /\ NewFrags = <<divEnd("comment"), div("code"), FenceOpen, TextLine(NewLine)>>
              /\ status' = code]_vars

\* C31: a document with four summary dividers, taken in the statuses summary,
\* intro, none and comment; the announcement is written once.
C31_Witness ==
    /\ pc = "done"
    /\ in = <<LPlus, LDash, LMore, LMore, LStarSlash, LMore, LComment, LMore>>
    /\ status = code
    /\ Count(out, Announcement) = 1
    /\ Count(out, TextLine(LMore)) = 3

\* The lines from..to of the document, each written as it is.
Verbatim(from, to) == [i \in 1..(to - from + 1) |-> TextLine(Lines[from + i - 1])]

\* C32: a line without the summary divider taken in status summary is written
\* as it is (line comment, start or end of a block comment, image tag and Hype
\* tag alike) and the status stays summary; so when convert returns in status
\* summary, all that follows the div of the summary in its result is the lines
\* after the closing front matter delimiter, each as it is, and the divEnd of
\* the gotohugo wrapper.
C32_StaysInSummary ==
    /\ [][Consumes /\ status = summary /\ ~isSummaryDivider(NewLine) =>
              /\ status' = summary
              /\ NewFrags = <<TextLine(NewLine)>>]_vars
    /\ [](Returned /\ status = summary =>
              \E k \in 1..Len(in) :
                  /\ statusAt(k) = frontmatter
                  /\ isFrontmatterDelim(Lines[k])
                  /\ DividerLines \cap (k + 1)..Len(in) = {}
                  /\ \E j \in 1..Len(out) :
                        /\ out[j] = div("summary doc")
                        /\ SubSeq(out, j + 1, Len(out))
                              = Verbatim(k + 1, Len(in)) \o <<divEnd("gotohugo")>>)

\* C32: a document without a summary divider: after the front matter come a
\* line comment, the start of a block comment with an image tag, and a Hype tag
\* with the end of the block comment.
C32_Witness ==
    /\ pc = "done"
    /\ in = <<LPlus, LDash, LComment, LDocStartImage, LHypeEnd, LComment>>
    /\ status = summary
    /\ SubSeq(out, Len(out) - 4, Len(out))
          = <<TextLine(LComment), TextLine(LDocStartImage), TextLine(LHypeEnd),
              TextLine(LComment), divEnd("gotohugo")>>

Newlines(s) == Cardinality({i \in 1..Len(s) : s[i] = "\n"})

EndsWithNewline == inText # <<>> /\ Last(inText) = "\n"

\* The last line of the text that a newline can follow: the number of the line.
LastText == IF EndsWithNewline THEN Len(in) - 1 ELSE Len(in)

\* What C33 says of a text that ends with a line comment, once convert returned.
EndsAfterComment ==
    IF EndsWithNewline
    THEN /\ Last(in) = <<>>
         /\ status = code
         /\ SubSeq(out, Len(out) - 3, Len(out)) = CodeFenceEnd \o <<divEnd("gotohugo")>>
    ELSE /\ status = comment
         /\ SubSeq(out, Len(out) - 1, Len(out))
               = <<TextLine(stripComment(Lines[LastText])), divEnd("gotohugo")>>

\* C33 as claimed: whenever the last line of the text is a line comment, convert
\* returns in status code with the closing fence and the divEnds of code and
\* ccpair if a newline follows the line, and in status comment with the divEnd
\* of the wrapper alone if none does.
C33_AnyLineComment ==
    pc = "returned" /\ LastText >= 1 /\ isLineComment(Lines[LastText]) => EndsAfterComment

\* C33: the loop takes one line more than the text has newlines, so the empty
\* string after a final newline is a line; and when the last line of the text
\* is a line comment that the loop takes in status none, comment or code,
\* convert returns in status code with the closing fence and the divEnds of code
\* and ccpair if a newline follows the line, and in status comment with the
\* divEnd of the wrapper alone if none does.
C33_FinalNewline ==
    pc = "returned" =>
        /\ Len(in) = Newlines(inText) + 1
        /\ EndsWithNewline => Last(in) = <<>>
        /\ (/\ LastText >= 1
            /\ isLineComment(Lines[LastText])
            /\ statusAt(LastText) \in {none, comment, code}) => EndsAfterComment

\* C33: scenario A with a line comment and a newline after it.
C33_Witness ==
    /\ pc = "returned"
    /\ inText = joinLines(ScenarioA \o <<LComment>>) \o <<"\n">>
    /\ Len(in) = 8
    /\ status = code
    /\ SubSeq(out, Len(out) - 7, Len(out))
          = <<divEnd("comment"), div("code"), FenceOpen, TextLine(<<>>)>>
              \o CodeFenceEnd \o <<divEnd("gotohugo")>>

\* C34: what convert returns for a text is what it returns for the text without
\* its carriage returns, and no line that convert wrote from the text holds a
\* carriage return.
C34_LineEndings ==
    pc = "returned" =>
        /\ out = convert(Split(CRFree(inText)), base, NoFile)
        /\ \A i \in 1..Len(out) :
              out[i].k \in {"line", "divider"} => ~Contains(out[i].t, "\r")

\* C34: scenario A and a line comment, with a carriage return within the
\* delimiter of the comment, one after it, and one before the last newline.
C34_Witness ==
    /\ pc = "returned"
    /\ inText = joinLines(ScenarioA \o <<LCommentCRs>>) \o <<"\r", "\n">>
    /\ in = ScenarioA \o <<LComment, LEmpty>>
    /\ out[Len(out) - 8] = TextLine(<<"x">>)

\* The end of the region kept: the first line after the first start marker that
\* has the end marker and no start marker, or the line after the last one.
RegionEnd ==
    IF \E e \in EndLines \ StartLines : e > FirstStart
    THEN MinOrZero({e \in EndLines \ StartLines : e > FirstStart})
    ELSE Len(hypeHTML) + 1

\* The lines of the file that are kept, by their numbers.
KeptNumbers ==
    IF FirstStart = 0 THEN {}
    ELSE {i \in (FirstStart + 1)..(RegionEnd - 1) : i \notin StartLines}

\* The j-th number of a set of numbers.
Nth(S, j) == CHOOSE i \in S : Cardinality({k \in S : k <= i}) = j

\* C35 as claimed: the result is the lines kept, in the order of the file, each
\* without its leading tabs and with its src attribute extended and else as it
\* is in the file, and an empty line after them; and after a start marker with
\* no end marker after it every line to the end of the file is kept.
C35_LeadingTabs ==
    pc = "snippetRead" =>
        /\ htmlSnippet.lines = Kept \o << <<>> >>
        /\ Len(Kept) = Cardinality(KeptNumbers)
        /\ \A j \in 1..Len(Kept) :
              Kept[j] = KeptLine(hypeHTML[Nth(KeptNumbers, j)], FALSE)
        /\ FirstStart = 0 => htmlSnippet.lines = << <<>> >>
        /\ (FirstStart # 0 /\ RegionEnd = Len(hypeHTML) + 1) =>
              Len(Kept) = Len(hypeHTML) - FirstStart

\* C35 (amended): the result is the lines kept, in the order of the file, each
\* without its leading and its trailing tabs and with its src attribute
\* extended and else as it is in the file, and an empty line after them; of a
\* file without a start marker the result is the empty line; and after a start
\* marker with no end marker after it every line to the end of the file is
\* kept but the lines with a start marker.
C35_Lines ==
    pc = "snippetRead" =>
        /\ htmlSnippet.warning = <<>>
        /\ htmlSnippet.lines = Kept \o << <<>> >>
        /\ Len(Kept) = Cardinality(KeptNumbers)
        /\ \A j \in 1..Len(Kept) :
              Kept[j] = KeptLine(hypeHTML[Nth(KeptNumbers, j)], TRUE)
        /\ FirstStart = 0 => htmlSnippet.lines = << <<>> >>
        /\ (FirstStart # 0 /\ RegionEnd = Len(hypeHTML) + 1) =>
              Len(Kept) = Cardinality({i \in (FirstStart + 1)..Len(hypeHTML) : i \notin StartLines})

\* C35: a file with a start marker and no end marker: the line within tabs is
\* kept without them, the line with the src attribute with the directory of
\* the media in it, and the last line without its carriage return.
C35_Witness ==
    /\ pc = "snippetRead"
    /\ flags.publicMediaDir = <<>>
    /\ hypeHTML = << <<"START">>, <<"\t", "x", "\t">>, <<"\t", "SRC", "x", "HR", "x">>,
                     <<"x", "\r">> >>
    /\ htmlSnippet.lines
          = << <<"x">>, <<"SRC", "/", "b", "/", "x", "HR", "x">>, <<"x">>, <<>> >>

\* Event k is one of Create or Write for the path p, and p has a timer.
WatchedTrigger(k, p) ==
    /\ k \in 1..Len(events)
    /\ events[k].name = p
    /\ ("Create" \in events[k].op \/ "Write" \in events[k].op)
    /\ p \in DOMAIN watchedPath

\* A conversion of p has started after event k was received.
StartedSince(k, p) == \E i \in 1..Len(started) : started[i] = p /\ progress[i].seen >= k

\* An event of Create or Write for a path with a timer leaves the timer running;
\* a timer that fires was running and is stopped; and every conversion started
\* has an event of Create or Write for its path before it that no earlier
\* conversion of the path came after, so that the events received between two
\* firings of a timer start one conversion.
Debounce ==
    /\ [][\A p \in EventNames :
            (/\ Len(events') = Len(events) + 1
             /\ Last(events').name = p
             /\ ("Create" \in Last(events').op \/ "Write" \in Last(events').op)
             /\ p \in DOMAIN watchedPath)
                => watchedPath'[p] = "running"]_vars
    /\ [][Len(started') = Len(started) + 1 =>
            /\ watchedPath[Last(started')] = "running"
            /\ watchedPath'[Last(started')] = "stopped"]_vars
    /\ [](\A i \in 1..Len(started) :
            \E k \in 1..progress[i].seen :
                /\ WatchedTrigger(k, started[i])
                /\ \A j \in 1..(i - 1) : started[j] = started[i] => progress[j].seen < k)

InProgress(i) == progress[i].at \in {"read", "write"}

\* C37 as claimed: no two conversions of one path are in progress at a time,
\* and no timer's function starts while an earlier one of its path is in
\* progress.
C37_OneAtATime ==
    /\ [](\A i, j \in 1..Len(started) :
            i < j /\ started[i] = started[j] => ~(InProgress(i) /\ InProgress(j)))
    /\ [][Len(started') = Len(started) + 1 =>
            \A i \in 1..Len(started) : started[i] = Last(started') => ~InProgress(i)]_vars

\* C37, what the code does: after a first event of Write for a/a.go the timer
\* fired and convertFile read the source; after a second event the timer fired
\* again, and the second convertFile reads while the first has yet to write.
C37_Witness ==
    /\ pc = "select"
    /\ events = <<[name |-> fpath(<<"a">>), op |-> {"Write", "Chmod"}],
                  [name |-> fpath(<<"a">>), op |-> {"Write", "Chmod"}]>>
    /\ started = <<fpath(<<"a">>), fpath(<<"a">>)>>
    /\ progress = <<[at |-> "write", seen |-> 1], [at |-> "read", seen |-> 2]>>

\* C38 as claimed: a step of a conversion that a timer has started leaves the
\* loop of watchAndConvert running, whether it fails or not; and an event of
\* Create or Write for a path whose conversion has failed leaves the timer of
\* the path running.
C38_OnlyLogged ==
    /\ [][pc = "select" /\ Len(progress') = Len(progress) /\ progress' # progress =>
            pc' = "select"]_vars
    /\ [][\A p \in DOMAIN watchedPath :
            (/\ \E i \in 1..Len(started) :
                    started[i] = p /\ progress[i].at \in {"logged", "fatal"}
             /\ Len(events') = Len(events) + 1
             /\ Last(events').name = p
             /\ ("Create" \in Last(events').op \/ "Write" \in Last(events').op))
                => watchedPath'[p] = "running" /\ pc' = "select"]_vars

\* C38, what the code does: after an event of Write for a/a.go the timer fired,
\* ioutil.ReadFile failed, and log.Fatal has ended the process.
C38_Witness ==
    /\ pc = "exited"
    /\ err = "nil"
    /\ events = <<[name |-> fpath(<<"a">>), op |-> {"Write", "Chmod"}]>>
    /\ started = <<fpath(<<"a">>)>>
    /\ progress = <<[at |-> "fatal", seen |-> 1]>>

=============================================================================
